---------------------------- MODULE Spec2Model ----------------------------
(***************************************************************************)
(* BusyBee status display (ESP32, T-Display S3).                           *)
(*                                                                         *)
(* Two tasks share the status variables: the web-server task (core 0,      *)
(* handleWebServer -> the route handlers of setupWebServer) and the        *)
(* display task (core 1, updateDisplay -> handleButtonPress,               *)
(* updateMarqueeIfNeeded, stepGameOfLife, the 1 s save check).             *)
(*                                                                         *)
(* Strings are sequences of one-character strings, so that strlen,         *)
(* strncpy and the colour parser are computed, not assumed.                *)
(***************************************************************************)
EXTENDS Integers, Sequences, FiniteSets, TLC

VARIABLES
    \* status shared by the two tasks
    isBusy, customText, customColor, customStatuses, showBattery,
    showCornerInfo,
    \* flash: the save flag and the Preferences store
    needSaveStatus, prefs,
    \* marquee
    textX, useMarquee, lastUpdate,
    \* the sprite both tasks draw into, and the frame last pushed to the panel
    sprite, frame,
    \* the page serverRoot is composing, and the page last sent
    html, page,
    \* buttons: the clock, the statics of handleButtonPress, the two pins as
    \* last read, the panel rotation
    now, lastRotation, lastPress, buttonWasPressed, statusIndex,
    buttonPressTime, buttonPressed, anglePressed, rotation,
    \* Game of Life (globals and the statics of stepGameOfLife; of alphaGrid
    \* the cells of AlphaCells)
    gameOfLifeRunning, golCols, golRows, golFrame, golGrid, golNext,
    hashHistory, hashIdx, alphaGrid,
    \* animateToBusyBee (its locals, kept while the morph is on screen)
    targetPoints, usedCells, assignment,
    \* display task: position in updateDisplay and where displayStatus returns
    rpc, rret,
    \* web-server task: position in the handler, where displayStatus returns,
    \* the request being served, the one served before it, requests served,
    \* and (history) the shared state as it was when the request was accepted
    cpc, cret, req, prevReq, served, accepted,
    \* holder of the statusMux spinlock
    statusMux

statusVars == <<isBusy, customText, customColor, customStatuses, showBattery,
                showCornerInfo>>
saveVars == <<needSaveStatus, prefs>>
marqueeVars == <<textX, useMarquee, lastUpdate>>
drawVars == <<sprite, frame>>
pageVars == <<html, page>>
buttonVars == <<now, lastRotation, lastPress, buttonWasPressed, statusIndex,
                buttonPressTime, buttonPressed, anglePressed, rotation>>
golVars == <<gameOfLifeRunning, golCols, golRows, golFrame, golGrid, golNext,
             hashHistory, hashIdx, alphaGrid>>
morphVars == <<targetPoints, usedCells, assignment>>
renderVars == <<rpc, rret>>
serverVars == <<cpc, cret, req, prevReq, served, accepted>>

vars == <<statusVars, saveVars, marqueeVars, drawVars, pageVars, buttonVars,
          golVars, morphVars, renderVars, serverVars, statusMux>>

---------------------------------------------------------------------------
(* Bounds of the model *)

\* Width and height of the display the simulation runs on (the device's is
\* 320 x 170, giving a 53 x 28 grid; the model's gives a 3 x 2 torus).
GolScreenWidth == 18
GolScreenHeight == 12
\* Most edge pixels of the wordmark the morph is given.
MaxTargets == 2
\* Most animation frames of a behaviour.
MaxFrame == 3
\* Button presses a behaviour has room for, and the time from one to the next.
MaxPresses == 2
MaxCyclePresses == 5
\* Requests a behaviour has room for, with the buttons and without.
MaxStatusRequests == 2
MaxCmdRequests == 2
PressPeriod == 331
\* Advance widths of a glyph in FreeSans24pt7b and FreeSans18pt7b (the
\* display library's font tables; one width per font in the model).
CharWidth24 == 28
CharWidth18 == 21
CharWidthFont2 == 8
\* Marquee ticks a behaviour has room for.
MaxMarqueeTicks == 340

---------------------------------------------------------------------------
(* Program constants *)

screenWidth == 320
updateInterval == 80
textSpeed == 2
longPressDuration == 3000
golCellSize == 6
HASH_HISTORY == 8
\* millis() when the tasks start: showBootAnimation's 40 frames of 30 ms and
\* its 800 ms hold
BootTime == 2000
\* sizeof(customText), sizeof(customStatuses[i].text)
TextBufferSize == 32
\* TFT_eSPI's RGB565 colours
TFT_BLACK == 0
TFT_RED == 63488
TFT_GREEN == 2016
TFT_BLUE == 31

---------------------------------------------------------------------------
(* Helpers *)

Min(a, b) == IF a < b THEN a ELSE b

RECURSIVE SumSeq(_)
SumSeq(s) == IF s = <<>> THEN 0 ELSE Head(s) + SumSeq(Tail(s))

Pow2(k) == 2 ^ k

Rows == 0 .. (golRows - 1)
Cols == 0 .. (golCols - 1)

\* A rows x cols grid of zeros: std::vector<uint8_t>(cols) value-initialised.
ZeroGrid(rows, cols) == [y \in 0 .. (rows - 1) |-> [x \in 0 .. (cols - 1) |-> 0]]

\* Every grid rand() % 4 == 0 can produce: each cell 0 or 1.
AllGrids(rows, cols) == [0 .. (rows - 1) -> [0 .. (cols - 1) -> {0, 1}]]

---------------------------------------------------------------------------
(* stepGameOfLife: the transition *)

\* for dy, dx in -1..1, (dx || dy): the eight offsets in loop order.
NeighbourOffsets ==
    << <<-1, -1>>, <<-1, 0>>, <<-1, 1>>, <<0, -1>>, <<0, 1>>,
       <<1, -1>>, <<1, 0>>, <<1, 1>> >>

\* The neighbours inside the grid only: no wrap at the borders.
LiveNeighboursNoWrap(g, y, x) ==
    SumSeq([k \in 1 .. 8 |->
        LET ny == y + NeighbourOffsets[k][1]
            nx == x + NeighbourOffsets[k][2]
        IN  IF ny \in 0 .. (golRows - 1) /\ nx \in 0 .. (golCols - 1)
            THEN g[ny][nx] ELSE 0])

\* live += golGrid[(y+dy+golRows)%golRows][(x+dx+golCols)%golCols]
LiveNeighbours(g, y, x) ==
    SumSeq([k \in 1 .. 8 |->
        g[(y + NeighbourOffsets[k][1] + golRows) % golRows]
         [(x + NeighbourOffsets[k][2] + golCols) % golCols]])

\* The value stored in golNext[y][x].
NextCell(g, y, x) ==
    LET live == LiveNeighbours(g, y, x)
    IN  IF g[y][x] # 0
        THEN (IF live = 2 \/ live = 3 THEN 1 ELSE 0)
        ELSE (IF live = 3 THEN 1 ELSE 0)

NextGeneration(g) == [y \in Rows |-> [x \in Cols |-> NextCell(g, y, x)]]

\* hash ^= ((uint32_t)golGrid[y][x] << ((x + y) % 24)): every term has one
\* bit, so bit k of the XOR is the parity of the live cells with
\* (x + y) % 24 = k.
HashBit(g, k) ==
    Cardinality({c \in Rows \X Cols :
                    (c[1] + c[2]) % 24 = k /\ g[c[1]][c[2]] # 0}) % 2

GridHash(g) == SumSeq([k \in 1 .. 24 |-> HashBit(g, k - 1) * Pow2(k - 1)])

AllDead(g) == \A y \in Rows : \A x \in Cols : g[y][x] = 0

\* The hash compared with the last slot only.
CycleDetectedLastSlot(hash, hist) == hash = hist[HASH_HISTORY - 1]

\* for (i = 0; i < HASH_HISTORY; ++i) if (hash == hashHistory[i]) cycle = true
CycleDetected(hash, hist) == \E i \in 0 .. (HASH_HISTORY - 1) : hash = hist[i]

\* A fade that stops at the ends of the range: min(a + 32, 255) for a live
\* cell, max(a - 32, 0) for a dead one.
AlphaStepClamped(a, alive) ==
    IF alive THEN (IF a + 32 > 255 THEN 255 ELSE a + 32)
    ELSE (IF a > 32 THEN a - 32 ELSE 0)

\* One cell of the alpha update.  alphaGrid holds uint8_t, so += 32 is taken
\* modulo 256 and the test > 255 that follows it sees the stored value.
AlphaStep(a, alive) ==
    IF alive
    THEN LET b == IF a < 255 THEN (a + 32) % 256 ELSE a
         IN  IF b > 255 THEN 255 ELSE b
    ELSE IF a > 0 THEN (IF a > 32 THEN a - 32 ELSE 0) ELSE a

\* The cells whose alpha the model follows, as <<y, x>>; every cell fades by
\* the same rule and independently of the others.
AlphaCells == {<<0, 0>>}

\* alphaGrid.assign(golRows, std::vector<uint8_t>(golCols, 0)), done by the
\* first step after boot.
ZeroAlpha == [c \in AlphaCells |-> 0]

\* The alpha update over the grid g as it is before the generation step.
\* With golRows = 0 (no grid yet) the loops do nothing.
AlphaUpdate(g, alpha) ==
    [c \in AlphaCells |->
        IF c[1] \in Rows /\ c[2] \in Cols
        THEN AlphaStep(alpha[c], g[c[1]][c[2]] # 0)
        ELSE alpha[c]]

ClearedHistory == [i \in 0 .. (HASH_HISTORY - 1) |-> 0]

---------------------------------------------------------------------------
(* animateToBusyBee: targets, sources, reconciliation, assignment *)

\* The i-th edge pixel of the rendered wordmark in scan order (rows first).
\* The font raster is the display library's; the model takes a fixed list.
TargetPixel(i) ==
    [x |-> 2 + 4 * ((i - 1) % 4), y |-> 3 + 5 * ((i - 1) \div 4)]

TargetList(t) == [i \in 1 .. t |-> TargetPixel(i)]

\* cx = x * golCellSize + golCellSize / 2 (the colour travels with the cell
\* and takes no part in reconciliation or assignment).
CellCentre(y, x) ==
    [x |-> x * golCellSize + golCellSize \div 2,
     y |-> y * golCellSize + golCellSize \div 2]

\* liveCells: the live cells of golGrid, pushed in scan order; k counts the
\* cells y * golCols + x still to visit from the end.
RECURSIVE LiveCellsFrom(_, _)
LiveCellsFrom(g, k) ==
    IF k >= golRows * golCols THEN <<>>
    ELSE LET y == k \div golCols
             x == k % golCols
             rest == LiveCellsFrom(g, k + 1)
         IN  IF g[y][x] # 0 THEN <<CellCentre(y, x)>> \o rest ELSE rest

LiveCells(g) == LiveCellsFrom(g, 0)

\* std::random_shuffle, then the first t cells: any t distinct cells in any
\* order.
ShuffledPicks(live, t) ==
    {[i \in 1 .. t |-> live[f[i]]] :
        f \in {h \in [1 .. t -> 1 .. Len(live)] :
                 \A a, b \in 1 .. t : a # b => h[a] # h[b]}}

\* usedCells = liveCells; while (usedCells.size() < t)
\*   usedCells.push_back(liveCells[usedCells.size() % liveCells.size()])
DuplicatedCells(live, t) == [k \in 1 .. t |-> live[((k - 1) % Len(live)) + 1]]

\* liveCells.size() >= targetPoints.size() ? shuffle and cut : duplicate
ReconcileChoices(live, t) ==
    IF Len(live) >= t THEN ShuffledPicks(live, t) ELSE {DuplicatedCells(live, t)}

\* The duplicate loop computes % liveCells.size(): with no live cell and at
\* least one target that is an integer division by zero, which the ESP32-S3
\* traps (IntegerDivideByZero panic).
ReconcileDividesByZero(live, t) == Len(live) < t /\ Len(live) = 0

SqDist(c, p) == (c.x - p.x) * (c.x - p.x) + (c.y - p.y) * (c.y - p.y)

\* A search that does not skip the cells already used.
NearestOfAll(p, cells, used) ==
    CHOOSE j \in 1 .. Len(cells) :
        \A k \in 1 .. Len(cells) :
            \/ SqDist(cells[j], p) < SqDist(cells[k], p)
            \/ (SqDist(cells[j], p) = SqDist(cells[k], p) /\ j <= k)

\* The inner loop over j: the unused cell of least squared distance, the
\* lowest index on a tie (dist < minDist is strict); 0 when none is left
\* (minIdx = -1 in the code's 0-based indices).
NearestUnused(p, cells, used) ==
    LET free == (1 .. Len(cells)) \ used
    IN  IF free = {} THEN 0
        ELSE CHOOSE j \in free :
                \A k \in free :
                    \/ SqDist(cells[j], p) < SqDist(cells[k], p)
                    \/ (SqDist(cells[j], p) = SqDist(cells[k], p) /\ j <= k)

\* The outer loop over the targets i, i+1, ...: assignment[i] = minIdx,
\* used[minIdx] = true.  Indices are stored 0-based as in the code, -1 for
\* an unassigned target.
RECURSIVE AssignFrom(_, _, _, _)
AssignFrom(i, targets, cells, used) ==
    IF i > Len(targets) THEN <<>>
    ELSE LET j == NearestUnused(targets[i], cells, used)
         IN  <<j - 1>> \o
             AssignFrom(i + 1, targets, cells, IF j = 0 THEN used ELSE used \cup {j})

GreedyAssignment(targets, cells) == AssignFrom(1, targets, cells, {})

---------------------------------------------------------------------------
(* Strings *)

\* n copies of the character c.
Rep(c, n) == [i \in 1 .. n |-> c]

BUSY_TEXT == <<"B", "U", "S", "Y">>
TALK_TEXT == <<"L", "E", "T", "'", "S", " ", "T", "A", "L", "K">>
CUSTOM_PREFIX == <<"C", "U", "S", "T", "O", "M">>

Digits == <<"0", "1", "2", "3", "4", "5", "6", "7", "8", "9">>
IsDigit(c) == \E d \in 1 .. 10 : Digits[d] = c
DigitVal(c) == (CHOOSE d \in 1 .. 10 : Digits[d] = c) - 1

\* String(i): the decimal digit of a slot number.
DigitChar(i) == Digits[i + 1]

\* "CUSTOM" + String(i+1), the default text of slot i (0-based).
DefaultSlotText(i) == CUSTOM_PREFIX \o <<DigitChar(i + 1)>>

\* strcpy: the source copied whatever its length.
StrcpyUnbounded(src) == src

\* strncpy(dst, src, sizeof(dst) - 1); dst[sizeof(dst) - 1] = '\0', and
\* String::toCharArray(dst, sizeof(dst)): the first sizeof(dst) - 1 characters.
Strncpy(src) == SubSeq(src, 1, Min(Len(src), TextBufferSize - 1))

\* String::startsWith
StartsWith(str, prefix) ==
    Len(str) >= Len(prefix) /\ SubSeq(str, 1, Len(prefix)) = prefix

\* String::substring(from) with a 0-based index
SubstringFrom(str, from) == SubSeq(str, from + 1, Len(str))

\* String::toInt (atol) on unsigned input: the value of the leading digits,
\* 0 when there is none.
RECURSIVE ToIntFrom(_, _)
ToIntFrom(str, acc) ==
    IF str = <<>> \/ ~IsDigit(Head(str)) THEN acc
    ELSE ToIntFrom(Tail(str), 10 * acc + DigitVal(Head(str)))

ToInt(str) == ToIntFrom(str, 0)

---------------------------------------------------------------------------
(* Colours *)

HexUpper == <<"0", "1", "2", "3", "4", "5", "6", "7", "8", "9",
              "A", "B", "C", "D", "E", "F">>
HexLower == <<"0", "1", "2", "3", "4", "5", "6", "7", "8", "9",
              "a", "b", "c", "d", "e", "f">>
IsHex(c) == \E d \in 1 .. 16 : HexUpper[d] = c \/ HexLower[d] = c
HexVal(c) == (CHOOSE d \in 1 .. 16 : HexUpper[d] = c \/ HexLower[d] = c) - 1

\* strtol(two characters, nullptr, 16) on unsigned input: the leading hex
\* digits, 0 when there is none.
Strtol16(str) ==
    IF str = <<>> \/ ~IsHex(str[1]) THEN 0
    ELSE IF Len(str) < 2 \/ ~IsHex(str[2]) THEN HexVal(str[1])
    ELSE 16 * HexVal(str[1]) + HexVal(str[2])

\* ((r & 0xF8) << 8) | ((g & 0xFC) << 3) | (b >> 3)
RgbTo565(r, g, b) ==
    (r - (r % 8)) * 256 + (g - (g % 4)) * 8 + (b \div 8)

\* A colour argument accepted whenever it has seven characters.
ColorAcceptedByLength(color) == Len(color) = 7

\* color.length() == 7 && color[0] == '#'
ColorAccepted(color) == Len(color) = 7 /\ color[1] = "#"

\* rgbTo565 of the three strtol'ed substrings (1,3), (3,5), (5,7).
ParseColor(color) ==
    RgbTo565(Strtol16(SubSeq(color, 2, 3)), Strtol16(SubSeq(color, 4, 5)),
             Strtol16(SubSeq(color, 6, 7)))

---------------------------------------------------------------------------
(* Marquee and fonts *)

\* setDynamicFont: the font it selects for the text
DynamicFont(text) ==
    IF Len(text) <= 10 THEN "FreeSans24pt7b" ELSE "FreeSans18pt7b"

\* sprite.textWidth(text) with the sprite's font as it stands
SpriteTextWidth(text, font) ==
    Len(text) * (IF font = "FreeSans24pt7b" THEN CharWidth24
                 ELSE IF font = "FreeSans18pt7b" THEN CharWidth18
                 ELSE CharWidthFont2)

\* setDynamicFont, then sprite.textWidth(text)
TextWidth(text) == SpriteTextWidth(text, DynamicFont(text))

\* checkMarquee: the value it stores in useMarquee
NeedsMarquee(text) == TextWidth(text) > screenWidth

\* The font displayStatus leaves selected: setTextFont(2) when it drew the
\* corner text or the battery level, the dynamic font otherwise.
FontAfterDisplay ==
    IF showCornerInfo = 1 \/ showCornerInfo = 2 \/ showBattery
    THEN "Font2" ELSE DynamicFont(customText)

\* The wrap test with one tick overdue.
MarqueeAdvanceLate(x, width) ==
    IF x - textSpeed < -width - textSpeed THEN screenWidth ELSE x - textSpeed

\* textX -= textSpeed; if (textX < -sprite.textWidth(customText)) textX =
\* screenWidth
MarqueeAdvance(x, width) ==
    IF x - textSpeed < -width THEN screenWidth ELSE x - textSpeed

---------------------------------------------------------------------------
(* Boot: setup() *)

\* The Preferences store of a device that never saved: every get returns
\* its default.
FirstBootStore ==
    [isBusy |-> TRUE, customText |-> BUSY_TEXT, customColor |-> TFT_RED,
     showBattery |-> TRUE, showCornerInfo |-> 1,
     custom |-> [i \in 0 .. 2 |-> [text |-> DefaultSlotText(i), color |-> TFT_BLUE]],
     screenRotation |-> 3]

\* No request: the value of req and prevReq before the first request.
NoRequest ==
    [cmd |-> "none", status |-> <<>>, text |-> <<>>, color |-> <<>>,
     slot |-> 0, hasArg |-> FALSE, arg |-> <<>>]

\* The animation before the first /threebody: the globals at their
\* initialisers.
AnimationIdle ==
    /\ gameOfLifeRunning = FALSE
    /\ golCols = 0
    /\ golRows = 0
    /\ golFrame = 0
    /\ golGrid = <<>>
    /\ golNext = <<>>
    /\ hashHistory = ClearedHistory
    /\ hashIdx = 0
    /\ alphaGrid = ZeroAlpha

\* The web-server task before its first request.
NothingServed ==
    /\ cpc = "idle"
    /\ cret = "idle"
    /\ req = NoRequest
    /\ prevReq = NoRequest
    /\ served = 0
    /\ accepted = <<>>

\* setup() with the store P: the preferences loaded into the globals, the
\* statics at their initialisers, the first displayStatus() done.
BootStatus(P) ==
    /\ prefs = P
    /\ isBusy = P.isBusy
    /\ customText = Strncpy(P.customText)
    /\ customColor = P.customColor
    /\ showBattery = P.showBattery
    /\ showCornerInfo = P.showCornerInfo
    /\ customStatuses =
          [i \in 0 .. 2 |->
              [text |-> Strncpy(P.custom[i].text), color |-> P.custom[i].color]]
    /\ needSaveStatus = FALSE
    /\ textX = screenWidth
    /\ useMarquee = NeedsMarquee(Strncpy(P.customText))
    /\ lastUpdate = 0
    /\ sprite = [color |-> P.customColor, text |-> Strncpy(P.customText),
                 font |-> IF P.showCornerInfo = 1 \/ P.showCornerInfo = 2
                             \/ P.showBattery
                          THEN "Font2" ELSE DynamicFont(Strncpy(P.customText))]
    /\ frame = [color |-> P.customColor, text |-> Strncpy(P.customText)]
    /\ html = [color |-> 0, text |-> <<>>]
    /\ page = [color |-> 0, text |-> <<>>]
    /\ lastRotation = 3
    /\ lastPress = 0
    /\ buttonWasPressed = FALSE
    /\ statusIndex = 0
    /\ buttonPressTime = 0
    /\ buttonPressed = FALSE
    /\ anglePressed = FALSE
    /\ rotation = P.screenRotation
    /\ usedCells = <<>>
    /\ assignment = <<>>
    /\ rpc = "loop"
    /\ rret = "loop"
    /\ statusMux = "free"

\* The device when its two tasks start.
Boot(P) ==
    /\ BootStatus(P)
    /\ AnimationIdle
    /\ NothingServed

---------------------------------------------------------------------------
(* Operations both tasks call *)

\* displayStatus, first half: sprite.fillSprite(customColor).
DisplayFill == sprite' = [sprite EXCEPT !.color = customColor]

\* displayStatus, second half: the text is drawn and the sprite pushed.
DisplayText ==
    /\ sprite' = [sprite EXCEPT !.text = customText, !.font = FontAfterDisplay]
    /\ frame' = [color |-> sprite.color, text |-> customText]

\* checkMarquee: setDynamicFont on the sprite, then useMarquee.
CheckMarquee ==
    /\ sprite' = [sprite EXCEPT !.font = DynamicFont(customText)]
    /\ useMarquee' = NeedsMarquee(customText)

\* saveStatus and the body of reallySaveStatus: every field put, the slots
\* by saveCustomStatuses.
StoreWithStatus ==
    [prefs EXCEPT !.isBusy = isBusy, !.customText = customText,
                  !.customColor = customColor, !.showBattery = showBattery,
                  !.showCornerInfo = showCornerInfo, !.custom = customStatuses]

\* saveCustomStatuses alone
StoreWithSlots == [prefs EXCEPT !.custom = customStatuses]

---------------------------------------------------------------------------
(* Display task: handleButtonPress *)

\* The next index whatever the slots hold.
NextStatusIndexNoSkip(idx) == (idx + 1) % 5

\* A long press only while no animation runs.
IsLongPressWhenIdle(d) == d >= longPressDuration /\ ~gameOfLifeRunning

\* A long press only beyond longPressDuration.
IsLongPressStrict(d) == d > longPressDuration

\* The do-while of the short press: statusIndex = (statusIndex + 1) % 5 while
\* the index names a custom slot with empty text and tryCount < 5.
\* A loop body run once, whatever slot it lands on.
CycleFromFirstProbe(idx, tryCount) == (idx + 1) % 5

RECURSIVE CycleFrom(_, _)
CycleFrom(idx, tryCount) ==
    LET n == (idx + 1) % 5
        t == tryCount + 1
    IN  IF n >= 2 /\ n <= 4 /\ Len(customStatuses[n - 2].text) = 0 /\ t < 5
        THEN CycleFrom(n, t)
        ELSE n

NextStatusIndex(idx) == CycleFrom(idx, 0)

\* tryCount when the same do-while loop ends: the number of times its body
\* ran.
RECURSIVE CycleTries(_, _)
CycleTries(idx, tryCount) ==
    LET n == (idx + 1) % 5
        t == tryCount + 1
    IN  IF n >= 2 /\ n <= 4 /\ Len(customStatuses[n - 2].text) = 0 /\ t < 5
        THEN CycleTries(n, t)
        ELSE t

\* The points of updateDisplay's loop at which the next iteration may begin
\* (the marquee, the battery refresh and the save check run only when due).
LoopPoints == {"loop", "work", "refresh", "tick"}

\* updateMarqueeIfNeeded has a tick to make: useMarquee and
\* currentMillis - lastUpdate >= updateInterval.
MarqueeDue == useMarquee /\ now - lastUpdate >= updateInterval

\* The millis() readings a behaviour draws from: for each of the presses it
\* has room for, the given offsets from the start of the press period.
Instants(presses, offsets) ==
    {BootTime + PressPeriod * k + o : k \in 0 .. presses, o \in offsets}

\* pressDuration >= longPressDuration
IsLongPress(d) == d >= longPressDuration

\* pressDuration > 30, tested when the press was not a long one
IsShortPress(d) == d > 30

\* now - lastPress > 300
DebounceElapsed(t) == t - lastPress > 300

\* A short press that cycles the status whether or not the animation runs.
ShortPressAlwaysCycles == FALSE

\* if (gameOfLifeRunning) of an accepted short press: the press stops the
\* animation instead of cycling the status.
ShortPressStopsAnimation == gameOfLifeRunning

\* The main-button half of handleButtonPress with millis() = t and the pin
\* read as pressed; next is where updateDisplay goes on after the call.
MainPart(t, pressed, next) ==
    IF pressed /\ ~buttonWasPressed
    THEN /\ buttonPressTime' = t
         /\ buttonWasPressed' = pressed
         /\ rpc' = next
         /\ UNCHANGED <<lastPress, statusIndex, gameOfLifeRunning, rret>>
    ELSE IF ~pressed /\ buttonWasPressed
    THEN IF IsLongPress(t - buttonPressTime)
         THEN \* esp_deep_sleep_start() does not return
              /\ rpc' = "asleep"
              /\ UNCHANGED <<buttonPressTime, buttonWasPressed, lastPress,
                             statusIndex, gameOfLifeRunning, rret>>
         ELSE IF IsShortPress(t - buttonPressTime) /\ DebounceElapsed(t)
         THEN IF ShortPressStopsAnimation
              THEN /\ gameOfLifeRunning' = FALSE
                   /\ lastPress' = t
                   /\ buttonPressTime' = 0
                   /\ buttonWasPressed' = pressed
                   /\ rpc' = "disp"
                   /\ rret' = next
                   /\ UNCHANGED statusIndex
              ELSE /\ statusIndex' = NextStatusIndex(statusIndex)
                   /\ rpc' = "cyc_lock"
                   /\ UNCHANGED <<buttonPressTime, buttonWasPressed, lastPress,
                                  gameOfLifeRunning, rret>>
         ELSE /\ buttonPressTime' = 0
              /\ buttonWasPressed' = pressed
              /\ rpc' = next
              /\ UNCHANGED <<lastPress, statusIndex, gameOfLifeRunning, rret>>
    ELSE /\ buttonWasPressed' = pressed
         /\ rpc' = next
         /\ UNCHANGED <<buttonPressTime, lastPress, statusIndex,
                        gameOfLifeRunning, rret>>

\* A render loop that runs stepGameOfLife() on every pass.
LoopBranchAlwaysSteps == "step"

\* updateDisplay: if (gameOfLifeRunning) { handleButtonPress();
\* stepGameOfLife(); ... return; }, else the status page's work.
LoopBranch == IF gameOfLifeRunning THEN "step" ELSE "work"

golRest == <<golCols, golRows, golFrame, golGrid, golNext, hashHistory, hashIdx,
             alphaGrid>>

\* handleButtonPress entered with millis() = t and the two pins read: the
\* rotation half up to its displayStatus(), or the whole call when the
\* rotation button does nothing.
PollButtons(t, main, angle) ==
    /\ rpc \in LoopPoints
    /\ ~(rpc = "work" /\ MarqueeDue)
    /\ t > now
    /\ now' = t
    /\ buttonPressed' = main
    /\ anglePressed' = angle
    /\ IF angle /\ DebounceElapsed(t)
       THEN IF gameOfLifeRunning
            THEN /\ gameOfLifeRunning' = FALSE
                 /\ rpc' = "disp"
                 /\ rret' = "step"
                 /\ UNCHANGED <<rotation, buttonPressTime, buttonWasPressed,
                                lastPress, statusIndex>>
            ELSE /\ rotation' = (IF lastRotation = 1 THEN 3 ELSE 1)
                 /\ rpc' = "disp"
                 /\ rret' = "rot_save"
                 /\ UNCHANGED <<gameOfLifeRunning, buttonPressTime,
                                buttonWasPressed, lastPress, statusIndex>>
       ELSE /\ MainPart(t, main, LoopBranch)
            /\ UNCHANGED rotation
    /\ UNCHANGED <<statusVars, saveVars, marqueeVars, drawVars, pageVars,
                   lastRotation, golRest, morphVars, serverVars, statusMux>>

\* The rotation half after its displayStatus(): prefs.putInt, lastRotation,
\* lastPress.
RotationSave ==
    /\ rpc = "rot_save"
    /\ prefs' = [prefs EXCEPT !.screenRotation = rotation]
    /\ lastRotation' = rotation
    /\ lastPress' = now
    /\ rpc' = "main"
    /\ UNCHANGED <<statusVars, needSaveStatus, marqueeVars, drawVars, pageVars,
                   now, buttonWasPressed, statusIndex, buttonPressTime,
                   buttonPressed, anglePressed, rotation, golVars, morphVars, rret,
                   serverVars, statusMux>>

\* The main-button half after a rotation.
MainButton ==
    /\ rpc = "main"
    /\ MainPart(now, buttonPressed, "work")
    /\ UNCHANGED <<statusVars, saveVars, marqueeVars, drawVars, pageVars,
                   now, lastRotation, buttonPressed, anglePressed, rotation, golRest,
                   morphVars, serverVars, statusMux>>

\* Short press: portENTER_CRITICAL(&statusMux) and the write of isBusy.
CycleEnter ==
    /\ rpc = "cyc_lock"
    /\ statusMux = "free"
    /\ statusMux' = "render"
    /\ isBusy' = (statusIndex = 0)
    /\ rpc' = "cyc_text"
    /\ UNCHANGED <<customText, customColor, customStatuses, showBattery,
                   showCornerInfo, saveVars, marqueeVars, drawVars, pageVars,
                   buttonVars, golVars, morphVars, rret, serverVars>>

\* Short press: strcpy / strncpy into customText.
CycleText ==
    /\ rpc = "cyc_text"
    /\ customText' = IF statusIndex = 0 THEN BUSY_TEXT
                     ELSE IF statusIndex = 1 THEN TALK_TEXT
                     ELSE Strncpy(customStatuses[statusIndex - 2].text)
    /\ rpc' = "cyc_color"
    /\ UNCHANGED <<isBusy, customColor, customStatuses, showBattery,
                   showCornerInfo, saveVars, marqueeVars, drawVars, pageVars,
                   buttonVars, golVars, morphVars, rret, serverVars, statusMux>>

\* Short press: customColor, portEXIT_CRITICAL, textX = screenWidth,
\* checkMarquee().
CycleColor ==
    /\ rpc = "cyc_color"
    /\ customColor' = IF statusIndex = 0 THEN TFT_RED
                      ELSE IF statusIndex = 1 THEN TFT_GREEN
                      ELSE customStatuses[statusIndex - 2].color
    /\ statusMux' = "free"
    /\ textX' = screenWidth
    /\ CheckMarquee
    /\ rpc' = "disp"
    /\ rret' = "cyc_save"
    /\ UNCHANGED <<isBusy, customText, customStatuses, showBattery,
                   showCornerInfo, saveVars, lastUpdate, frame, pageVars, buttonVars,
                   golVars, morphVars, serverVars>>

\* Short press: saveStatus(), lastPress = now, and the end of the call.
CycleSave ==
    /\ rpc = "cyc_save"
    /\ prefs' = StoreWithStatus
    /\ lastPress' = now
    /\ buttonPressTime' = 0
    /\ buttonWasPressed' = buttonPressed
    /\ rpc' = "work"
    /\ UNCHANGED <<statusVars, needSaveStatus, marqueeVars, drawVars, pageVars,
                   now, lastRotation, statusIndex, buttonPressed, anglePressed, rotation,
                   golVars, morphVars, rret, serverVars, statusMux>>

\* displayStatus() on the display task, first half.
RenderDisplayFill ==
    /\ rpc = "disp"
    /\ DisplayFill
    /\ rpc' = "disp_text"
    /\ UNCHANGED <<statusVars, saveVars, marqueeVars, frame, pageVars,
                   buttonVars, golVars, morphVars, rret, serverVars, statusMux>>

\* displayStatus() on the display task, second half.
RenderDisplayText ==
    /\ rpc = "disp_text"
    /\ DisplayText
    /\ rpc' = rret
    /\ UNCHANGED <<statusVars, saveVars, marqueeVars, pageVars, buttonVars,
                   golVars, morphVars, rret, serverVars, statusMux>>

\* The steps of an accepted short press and of displayStatus().
ShortPressSteps ==
    \/ CycleEnter
    \/ CycleText
    \/ CycleColor
    \/ CycleSave
    \/ RenderDisplayFill
    \/ RenderDisplayText

\* Stores a device can boot from: the first-boot store with each custom slot
\* left at its default text or saved empty (the slot form's only other use).
SlotTextStores ==
    {[FirstBootStore EXCEPT
        !.custom = [i \in 0 .. 2 |->
                      [text |-> IF e[i] THEN <<>> ELSE DefaultSlotText(i),
                       color |-> TFT_BLUE]]] :
        e \in [0 .. 2 -> BOOLEAN]}

\* Both buttons, polled at readings that put press durations of 29, 30, 31,
\* 2999 and 3000 ms and gaps around the 300 ms debounce within reach.
TimingInstants == Instants(MaxPresses, {0, 29, 30, 31, 2999, 3000})

InitButton ==
    /\ Boot(FirstBootStore)
    /\ now = BootTime
    /\ targetPoints = <<>>

ButtonNext ==
    \/ \E t \in TimingInstants, main \in BOOLEAN, angle \in BOOLEAN :
          PollButtons(t, main, angle)
    \/ RotationSave
    \/ MainButton
    \/ ShortPressSteps

SpecButton == InitButton /\ [][ButtonNext]_vars

\* The main button alone and no command, for every combination of empty and
\* non-empty slots: presses of 31 ms, one per press period.
CycleInstants == Instants(MaxCyclePresses, {0, 31})

InitCycle ==
    /\ \E P \in SlotTextStores : Boot(P)
    /\ now = BootTime
    /\ targetPoints = <<>>

CycleNext ==
    \/ \E t \in CycleInstants, main \in BOOLEAN : PollButtons(t, main, FALSE)
    \/ ShortPressSteps

SpecCycle == InitCycle /\ [][CycleNext]_vars

---------------------------------------------------------------------------
(* Claims about the buttons *)

\* A step in which the main-button half of handleButtonPress sees the
\* button released after a press, with no animation running and more than
\* 300 ms since the last accepted button action.
ReleaseClassified ==
    /\ rpc \in LoopPoints \cup {"main"}
    /\ buttonWasPressed
    /\ ~buttonPressed'
    /\ ~(rpc' = "disp" /\ rret' = "rot_save")
    /\ ~gameOfLifeRunning
    /\ now' - lastPress > 300

\* C5: a release after d <= 29 ms changes nothing, after 31..2999 ms starts
\* exactly one mode cycle and does not sleep, after d >= 3000 ms puts the
\* device to sleep without a mode cycle.
C5_ReleaseClassification ==
    [][ReleaseClassified =>
        LET d == now' - buttonPressTime
        IN  /\ d <= 29 =>
                /\ rpc' \notin {"asleep", "cyc_lock"}
                /\ statusIndex' = statusIndex
                /\ UNCHANGED statusVars
            /\ (31 <= d /\ d <= 2999) =>
                /\ rpc' = "cyc_lock"
                /\ statusIndex' # statusIndex
                /\ statusIndex' = NextStatusIndex(statusIndex)
            /\ d >= 3000 =>
                /\ rpc' = "asleep"
                /\ statusIndex' = statusIndex
                /\ UNCHANGED statusVars]_vars

\* C5 witness: a press of 2999 ms has just been classified as a short press.
C5_Witness == rpc = "cyc_lock" /\ now - buttonPressTime = 2999

\* The modes a short press may select: Busy, Available and the custom slots
\* whose text is not empty.
SelectableModes ==
    {0, 1} \cup {i + 2 : i \in {j \in 0 .. 2 : Len(customStatuses[j].text) > 0}}

\* The selectable mode that follows idx in the cyclic order 0, 1, 2, 3, 4.
CyclicSuccessor(idx) ==
    CHOOSE v \in SelectableModes :
        \A w \in SelectableModes : (v - idx - 1) % 5 <= (w - idx - 1) % 5

\* C6: every short press selects the next mode in the cyclic order Busy,
\* Available, non-empty custom slots by index; the mode it applies is never
\* an empty slot.
C6_CycleSkipsEmptySlots ==
    /\ [][statusIndex' # statusIndex => statusIndex' = CyclicSuccessor(statusIndex)]_vars
    /\ [](rpc = "cyc_save" =>
            /\ statusIndex \in SelectableModes
            /\ Len(customText) > 0
            /\ frame.text = customText
            /\ customText = IF statusIndex = 0 THEN BUSY_TEXT
                            ELSE IF statusIndex = 1 THEN TALK_TEXT
                            ELSE customStatuses[statusIndex - 2].text)

\* C6 witness: with slots 1 and 3 empty, a press has gone from Available to
\* Custom2 and the next has gone on to Busy.
C6_Witness ==
    /\ Len(customStatuses[0].text) = 0
    /\ Len(customStatuses[1].text) > 0
    /\ Len(customStatuses[2].text) = 0
    /\ rpc = "cyc_save"
    /\ statusIndex = 0
    /\ prefs.customText = customStatuses[1].text

---------------------------------------------------------------------------
(* Display task: the animation *)

\* Every grid initGameOfLife can draw.
RandomGrids ==
    AllGrids(GolScreenHeight \div golCellSize, GolScreenWidth \div golCellSize)

\* initGameOfLife with the draws of rand() giving the grid g.
InitGameOfLife(g) ==
    /\ golCols' = GolScreenWidth \div golCellSize
    /\ golRows' = GolScreenHeight \div golCellSize
    /\ golGrid' = g
    /\ golNext' = ZeroGrid(GolScreenHeight \div golCellSize,
                           GolScreenWidth \div golCellSize)
    /\ golFrame' = 0

\* stepGameOfLife up to its test of allDead || cycle: the frame is drawn on
\* black and pushed, the next generation is computed into golNext and
\* swapped in, its hash compared with the history and then recorded.
GolStep ==
    /\ rpc = "step"
    /\ \E next \in {NextGeneration(golGrid)} : \E hash \in {GridHash(next)} :
           /\ golGrid' = next
           /\ golNext' = golGrid
           /\ golFrame' = golFrame + 1
           /\ hashHistory' = [hashHistory EXCEPT ![hashIdx] = hash]
           /\ hashIdx' = (hashIdx + 1) % HASH_HISTORY
           /\ alphaGrid' = AlphaUpdate(golGrid, alphaGrid)
           /\ rpc' = IF AllDead(next) \/ CycleDetected(hash, hashHistory)
                     THEN "morph" ELSE "loop"
    /\ sprite' = [sprite EXCEPT !.color = TFT_BLACK, !.text = <<>>]
    /\ frame' = [color |-> TFT_BLACK, text |-> <<>>]
    /\ UNCHANGED <<statusVars, saveVars, marqueeVars, pageVars,
                   buttonVars, gameOfLifeRunning, golCols, golRows, morphVars,
                   rret, serverVars, statusMux>>

\* What liveCells[usedCells.size() % liveCells.size()] can read from an empty
\* vector when the division does not trap: t cells of any content.
GarbageCells(t) ==
    [1 .. t -> {CellCentre(y, x) : y \in {0, golRows}, x \in {0, golCols}}]

\* animateToBusyBee: reconciliation and assignment.  With no target it
\* returns at once; with targets and no live cell the modulus divides by
\* zero, which is undefined: the chip traps, or the loop reads past the
\* empty vector.
AnimateToBusyBee ==
    /\ rpc = "morph"
    /\ LET live == LiveCells(golGrid)
           t == Len(targetPoints)
       IN  \/ /\ t = 0
              /\ usedCells' = <<>>
              /\ assignment' = <<>>
              /\ rpc' = "morphed"
           \/ /\ t > 0
              /\ ReconcileDividesByZero(live, t)
              /\ \/ /\ usedCells' = live
                    /\ assignment' = <<>>
                    /\ rpc' = "crashed"
                 \/ \E u \in GarbageCells(t) :
                       /\ usedCells' = u
                       /\ assignment' = GreedyAssignment(targetPoints, u)
                       /\ rpc' = "morphed"
           \/ /\ t > 0
              /\ ~ReconcileDividesByZero(live, t)
              /\ \E u \in ReconcileChoices(live, t) :
                    /\ usedCells' = u
                    /\ assignment' = GreedyAssignment(targetPoints, u)
              /\ rpc' = "morphed"
    /\ UNCHANGED <<statusVars, saveVars, marqueeVars, drawVars, pageVars,
                   buttonVars, golVars, targetPoints, rret, serverVars, statusMux>>

\* The rest of stepGameOfLife after animateToBusyBee returns:
\* initGameOfLife(), the history cleared, hashIdx = 0.
GolReset ==
    /\ rpc = "morphed"
    /\ \E g \in RandomGrids : InitGameOfLife(g)
    /\ hashHistory' = ClearedHistory
    /\ hashIdx' = 0
    /\ usedCells' = <<>>
    /\ assignment' = <<>>
    /\ rpc' = "loop"
    /\ UNCHANGED <<statusVars, saveVars, marqueeVars, drawVars, pageVars,
                   buttonVars, gameOfLifeRunning, alphaGrid, targetPoints,
                   rret, serverVars, statusMux>>

\* The reading of millis() a frame after now (delay(60) between steps), for
\* MaxFrame frames.
GolInstants == {now + 60} \cap (BootTime .. (BootTime + 60 * MaxFrame))

---------------------------------------------------------------------------
(* Web-server task: the route handlers *)

\* What the commands act on: status, text, colour, slots, corner-info mode,
\* battery flag, animation flag and grid.
Shared ==
    <<isBusy, customText, customColor, customStatuses, showCornerInfo,
      showBattery, gameOfLifeRunning, golGrid>>

\* What no handler writes.
displayOwned ==
    <<buttonVars, hashHistory, hashIdx, alphaGrid, morphVars, renderVars>>

\* server.handleClient() dispatching the request r to its handler; limit
\* bounds the requests of a behaviour.
Accept(r, limit) ==
    /\ cpc = "idle"
    /\ served < limit
    /\ req' = r
    /\ prevReq' = req
    /\ served' = served + 1
    /\ accepted' = Shared
    /\ cpc' = r.cmd
    /\ UNCHANGED <<statusVars, saveVars, marqueeVars, drawVars, pageVars,
                   golVars, displayOwned, cret, statusMux>>

\* status.substring(6).toInt() - 1
\* An index that is always the first slot's.
SlotIndexFirst(status) == 0

SlotIndex(status) == ToInt(SubstringFrom(status, 6)) - 1

STATUS_BUSY == <<"B", "U", "S", "Y">>
STATUS_TALK == <<"T", "A", "L", "K">>

\* /setStatus: the branch on status and the first write of the branch.
SetStatusEnter ==
    /\ cpc = "setStatus"
    /\ IF req.status = STATUS_BUSY \/ req.status = STATUS_TALK
       THEN /\ isBusy' = (req.status = STATUS_BUSY)
            /\ cpc' = "ss_text"
            /\ UNCHANGED statusMux
       ELSE IF req.status = CUSTOM_PREFIX
       THEN /\ cpc' = "sc_text"
            /\ UNCHANGED <<isBusy, statusMux>>
       ELSE IF /\ StartsWith(req.status, CUSTOM_PREFIX)
               /\ SlotIndex(req.status) >= 0
               /\ SlotIndex(req.status) < 3
               /\ Len(customStatuses[SlotIndex(req.status)].text) > 0
       THEN \* portENTER_CRITICAL(&statusMux)
            /\ statusMux = "free"
            /\ statusMux' = "server"
            /\ cpc' = "slot_text"
            /\ UNCHANGED isBusy
       ELSE /\ cpc' = "ss_post"
            /\ UNCHANGED <<isBusy, statusMux>>
    /\ UNCHANGED <<customText, customColor, customStatuses, showBattery,
                   showCornerInfo, saveVars, marqueeVars, drawVars, pageVars,
                   golVars, displayOwned, cret, req, prevReq, served, accepted>>

\* /setStatus BUSY or TALK: strcpy(customText, ...)
SetStatusText ==
    /\ cpc = "ss_text"
    /\ customText' = IF req.status = STATUS_BUSY THEN BUSY_TEXT ELSE TALK_TEXT
    /\ cpc' = "ss_color"
    /\ UNCHANGED <<isBusy, customColor, customStatuses, showBattery,
                   showCornerInfo, saveVars, marqueeVars, drawVars, pageVars,
                   golVars, displayOwned, cret, req, prevReq, served, accepted,
                   statusMux>>

\* /setStatus BUSY or TALK: customColor = ...
SetStatusColor ==
    /\ cpc = "ss_color"
    /\ customColor' = IF req.status = STATUS_BUSY THEN TFT_RED ELSE TFT_GREEN
    /\ cpc' = "ss_post"
    /\ UNCHANGED <<isBusy, customText, customStatuses, showBattery,
                   showCornerInfo, saveVars, marqueeVars, drawVars, pageVars,
                   golVars, displayOwned, cret, req, prevReq, served, accepted,
                   statusMux>>

\* /setStatus CUSTOMn: strncpy(customText, customStatuses[idx].text, ...)
SelectSlotText ==
    /\ cpc = "slot_text"
    /\ customText' = Strncpy(customStatuses[SlotIndex(req.status)].text)
    /\ cpc' = "slot_color"
    /\ UNCHANGED <<isBusy, customColor, customStatuses, showBattery,
                   showCornerInfo, saveVars, marqueeVars, drawVars, pageVars,
                   golVars, displayOwned, cret, req, prevReq, served, accepted,
                   statusMux>>

\* /setStatus CUSTOMn: customColor = customStatuses[idx].color and
\* portEXIT_CRITICAL
SelectSlotColor ==
    /\ cpc = "slot_color"
    /\ customColor' = customStatuses[SlotIndex(req.status)].color
    /\ statusMux' = "free"
    /\ cpc' = "ss_post"
    /\ UNCHANGED <<isBusy, customText, customStatuses, showBattery,
                   showCornerInfo, saveVars, marqueeVars, drawVars, pageVars,
                   golVars, displayOwned, cret, req, prevReq, served, accepted>>

\* /setStatus: textX = screenWidth, checkMarquee(), the reply, and the call
\* of displayStatus().
SetStatusPost ==
    /\ cpc = "ss_post"
    /\ textX' = screenWidth
    /\ CheckMarquee
    /\ cpc' = "disp"
    /\ cret' = "ss_save"
    /\ UNCHANGED <<statusVars, saveVars, lastUpdate, frame, pageVars, golVars,
                   displayOwned, req, prevReq, served, accepted, statusMux>>

\* /setStatus: saveStatus()
SetStatusSave ==
    /\ cpc = "ss_save"
    /\ prefs' = StoreWithStatus
    /\ cpc' = "idle"
    /\ UNCHANGED <<statusVars, needSaveStatus, marqueeVars, drawVars, pageVars,
                   golVars, displayOwned, cret, req, prevReq, served, accepted,
                   statusMux>>

\* displayStatus() on the web-server task, first half.
ServerDisplayFill ==
    /\ cpc = "disp"
    /\ DisplayFill
    /\ cpc' = "disp_text"
    /\ UNCHANGED <<statusVars, saveVars, marqueeVars, frame, pageVars, golVars,
                   displayOwned, cret, req, prevReq, served, accepted, statusMux>>

\* displayStatus() on the web-server task, second half.
ServerDisplayText ==
    /\ cpc = "disp_text"
    /\ DisplayText
    /\ cpc' = cret
    /\ UNCHANGED <<statusVars, saveVars, marqueeVars, pageVars, golVars,
                   displayOwned, cret, req, prevReq, served, accepted, statusMux>>

\* serverSetCustom: the text, copied inside its critical section when its
\* length is 1..20 and left alone otherwise.
ServerSetCustomText ==
    /\ cpc = "sc_text"
    /\ IF Len(req.text) > 0 /\ Len(req.text) <= 20
       THEN /\ statusMux = "free"
            /\ customText' = Strncpy(req.text)
       ELSE UNCHANGED customText
    /\ cpc' = "sc_color"
    /\ UNCHANGED <<isBusy, customColor, customStatuses, showBattery,
                   showCornerInfo, saveVars, marqueeVars, drawVars, pageVars,
                   golVars, displayOwned, cret, req, prevReq, served, accepted, statusMux>>

\* serverSetCustom: the colour, stored inside its own critical section when
\* the argument has the form #xxxxxx.
ServerSetCustomColor ==
    /\ cpc = "sc_color"
    /\ IF ColorAccepted(req.color)
       THEN /\ statusMux = "free"
            /\ customColor' = ParseColor(req.color)
       ELSE UNCHANGED customColor
    /\ cpc' = "sc_post"
    /\ UNCHANGED <<isBusy, customText, customStatuses, showBattery,
                   showCornerInfo, saveVars, marqueeVars, drawVars, pageVars,
                   golVars, displayOwned, cret, req, prevReq, served, accepted, statusMux>>

\* serverSetCustom: textX = screenWidth, checkMarquee(), and the call of
\* displayStatus().
ServerSetCustomPost ==
    /\ cpc = "sc_post"
    /\ textX' = screenWidth
    /\ CheckMarquee
    /\ cpc' = "disp"
    /\ cret' = "sc_flag"
    /\ UNCHANGED <<statusVars, saveVars, lastUpdate, frame, pageVars, golVars,
                   displayOwned, req, prevReq, served, accepted, statusMux>>

\* serverSetCustom: needSaveStatus = true
ServerSetCustomFlag ==
    /\ cpc = "sc_flag"
    /\ needSaveStatus' = TRUE
    /\ cpc' = "idle"
    /\ UNCHANGED <<statusVars, prefs, marqueeVars, drawVars, pageVars,
                   golVars, displayOwned, cret, req, prevReq, served, accepted, statusMux>>

\* /setCustomStatusN: the text of slot req.slot, copied when its length is
\* at most 20.
UpdateSlotText ==
    /\ cpc = "setCustomStatus"
    /\ IF Len(req.text) <= 20
       THEN /\ statusMux = "free"
            /\ customStatuses' =
                  [customStatuses EXCEPT ![req.slot].text = Strncpy(req.text)]
       ELSE UNCHANGED customStatuses
    /\ cpc' = "cs_color"
    /\ UNCHANGED <<isBusy, customText, customColor, showBattery,
                   showCornerInfo, saveVars, marqueeVars, drawVars, pageVars,
                   golVars, displayOwned, cret, req, prevReq, served, accepted, statusMux>>

\* /setCustomStatusN: the colour of the slot.
UpdateSlotColor ==
    /\ cpc = "cs_color"
    /\ IF ColorAccepted(req.color)
       THEN /\ statusMux = "free"
            /\ customStatuses' =
                  [customStatuses EXCEPT ![req.slot].color = ParseColor(req.color)]
       ELSE UNCHANGED customStatuses
    /\ cpc' = "cs_save"
    /\ UNCHANGED <<isBusy, customText, customColor, showBattery,
                   showCornerInfo, saveVars, marqueeVars, drawVars, pageVars,
                   golVars, displayOwned, cret, req, prevReq, served, accepted, statusMux>>

\* /setCustomStatusN: saveCustomStatuses()
UpdateSlotSave ==
    /\ cpc = "cs_save"
    /\ prefs' = StoreWithSlots
    /\ cpc' = "idle"
    /\ UNCHANGED <<statusVars, needSaveStatus, marqueeVars, drawVars, pageVars,
                   golVars, displayOwned, cret, req, prevReq, served, accepted, statusMux>>

\* The corner-info mode advanced to the next of 0, 1, 2.
CornerInfoCycled(r) == (showCornerInfo + 1) % 3

\* if (server.hasArg("cornerInfo")) showCornerInfo = arg.toInt()
CornerInfoValue(r) == IF r.hasArg THEN ToInt(r.arg) ELSE showCornerInfo

\* /setCornerInfo: the write of showCornerInfo
SetCornerInfo ==
    /\ cpc = "setCornerInfo"
    /\ showCornerInfo' = CornerInfoValue(req)
    /\ cpc' = "set_save"
    /\ UNCHANGED <<isBusy, customText, customColor, customStatuses,
                   showBattery, saveVars, marqueeVars, drawVars, pageVars,
                   golVars, displayOwned, cret, req, prevReq, served, accepted, statusMux>>

\* /setShowBattery: showBattery = server.hasArg("showBattery")
SetShowBattery ==
    /\ cpc = "setShowBattery"
    /\ showBattery' = req.hasArg
    /\ cpc' = "set_save"
    /\ UNCHANGED <<isBusy, customText, customColor, customStatuses,
                   showCornerInfo, saveVars, marqueeVars, drawVars, pageVars,
                   golVars, displayOwned, cret, req, prevReq, served, accepted, statusMux>>

\* /setCornerInfo and /setShowBattery: saveStatus(), then displayStatus().
SettingSave ==
    /\ cpc = "set_save"
    /\ prefs' = StoreWithStatus
    /\ cpc' = "disp"
    /\ cret' = "idle"
    /\ UNCHANGED <<statusVars, needSaveStatus, marqueeVars, drawVars, pageVars,
                   golVars, displayOwned, req, prevReq, served, accepted,
                   statusMux>>

\* /threebody: gameOfLifeRunning = true
ThreeBodyFlag ==
    /\ cpc = "threebody"
    /\ gameOfLifeRunning' = TRUE
    /\ cpc' = "tb_init"
    /\ UNCHANGED <<statusVars, saveVars, marqueeVars, drawVars, pageVars,
                   golRest, displayOwned, cret, req, prevReq, served, accepted,
                   statusMux>>

\* /threebody: initGameOfLife()
ThreeBodyInit ==
    /\ cpc = "tb_init"
    /\ \E g \in RandomGrids : InitGameOfLife(g)
    /\ cpc' = "idle"
    /\ UNCHANGED <<statusVars, saveVars, marqueeVars, drawVars, pageVars,
                   gameOfLifeRunning, displayOwned, cret, req, prevReq, served,
                   accepted, statusMux>>

\* /stopthreebody: gameOfLifeRunning = false
StopThreeBody ==
    /\ cpc = "stopthreebody"
    /\ gameOfLifeRunning' = FALSE
    /\ cpc' = "idle"
    /\ UNCHANGED <<statusVars, saveVars, marqueeVars, drawVars, pageVars,
                   golRest, displayOwned, cret, req, prevReq, served, accepted,
                   statusMux>>

\* serverRoot: sprintf(hexColor, "#%04X", customColor)
RootColor ==
    /\ cpc = "root"
    /\ html' = [html EXCEPT !.color = customColor]
    /\ cpc' = "root_text"
    /\ UNCHANGED <<statusVars, saveVars, marqueeVars, drawVars, page,
                   golVars, displayOwned, cret, req, prevReq, served, accepted, statusMux>>

\* serverRoot: customText spliced into the page, and the page sent.
RootText ==
    /\ cpc = "root_text"
    /\ html' = [html EXCEPT !.text = customText]
    /\ page' = [html EXCEPT !.text = customText]
    /\ cpc' = "idle"
    /\ UNCHANGED <<statusVars, saveVars, marqueeVars, drawVars,
                   golVars, displayOwned, cret, req, prevReq, served, accepted, statusMux>>

---------------------------------------------------------------------------
(* The animation: /threebody on a freshly booted device, then frames *)

ThreeBodyRequest == [NoRequest EXCEPT !.cmd = "threebody"]
StopThreeBodyRequest == [NoRequest EXCEPT !.cmd = "stopthreebody"]

\* A freshly booted device that has served one /threebody: the flag set, a
\* random grid, the history at its zero initialiser, no frame shown yet.  The
\* wordmark has up to MaxTargets edge pixels.
InitGol ==
    /\ BootStatus(FirstBootStore)
    /\ now = BootTime
    /\ \E t \in 0 .. MaxTargets : targetPoints = TargetList(t)
    /\ gameOfLifeRunning = TRUE
    /\ golCols = GolScreenWidth \div golCellSize
    /\ golRows = GolScreenHeight \div golCellSize
    /\ golFrame = 0
    /\ golGrid \in RandomGrids
    /\ golNext = ZeroGrid(GolScreenHeight \div golCellSize,
                          GolScreenWidth \div golCellSize)
    /\ hashHistory = ClearedHistory
    /\ hashIdx = 0
    /\ alphaGrid = ZeroAlpha
    /\ cpc = "idle"
    /\ cret = "idle"
    /\ req = ThreeBodyRequest
    /\ prevReq = NoRequest
    /\ served = 1
    /\ accepted = <<TRUE, BUSY_TEXT, TFT_RED,
                    [i \in 0 .. 2 |-> [text |-> DefaultSlotText(i), color |-> TFT_BLUE]],
                    1, TRUE, FALSE, <<>> >>

GolNext ==
    \/ \E t \in GolInstants : PollButtons(t, FALSE, FALSE)
    \/ GolStep
    \/ AnimateToBusyBee
    \/ GolReset

SpecGol == InitGol /\ [][GolNext]_vars

---------------------------------------------------------------------------
(* Claims about the animation *)

\* The live cells among the 8 neighbours of (y, x), taken toroidally.
ToroidalLive(g, y, x) ==
    Cardinality({d \in ((-1 .. 1) \X (-1 .. 1)) \ {<<0, 0>>} :
                    g[(y + d[1]) % golRows][(x + d[2]) % golCols] = 1})

\* The standard Life rule for one cell.
LifeRule(g, y, x) ==
    IF ToroidalLive(g, y, x) = 3 THEN 1
    ELSE IF g[y][x] = 1 /\ ToroidalLive(g, y, x) = 2 THEN 1
    ELSE 0

\* C3: one stepGameOfLife transition gives every cell the value of the
\* standard Life rule over its 8 toroidal neighbours.
C3_LifeRuleToroidal ==
    [][(rpc = "step" /\ rpc' # "step") =>
          \A y \in Rows : \A x \in Cols :
              golGrid'[y][x] = LifeRule(golGrid, y, x)]_vars

\* C3 witness: after the first step cell (0, 0) has been born from three
\* live neighbours all reached by wrapping around the left edge (golNext
\* holds the generation before the step).
C3_Witness ==
    /\ rpc = "loop"
    /\ golFrame = 1
    /\ golNext[0][0] = 0
    /\ golNext[0][1] = 0
    /\ golNext[1][0] = 0
    /\ golNext[1][1] = 0
    /\ golNext[0][golCols - 1] = 1
    /\ golNext[1][golCols - 1] = 1
    /\ golGrid[0][0] = 1

\* C4: a step producing a generation whose fingerprint is in the history
\* triggers the morph-and-reset in that step, once, and the step returns with
\* the history cleared and the write index 0.
C4_RepeatResetsOnce ==
    /\ [][(rpc = "step" /\ rpc' # "step"
            /\ \E i \in 0 .. (HASH_HISTORY - 1) : hashHistory[i] = GridHash(golGrid'))
          => rpc' = "morph"]_vars
    /\ [][(rpc = "morph" /\ rpc' # "morph") => rpc' \in {"morphed", "crashed"}]_vars
    /\ [][(rpc = "morphed" /\ rpc' # "morphed")
          => /\ rpc' = "loop"
             /\ hashHistory' = [i \in 0 .. (HASH_HISTORY - 1) |-> 0]
             /\ hashIdx' = 0]_vars

\* C4 witness: the second generation repeats the fingerprint of the first,
\* with cells alive, and the reset has been triggered.
C4_Witness ==
    /\ rpc = "morph"
    /\ golFrame = 2
    /\ ~AllDead(golGrid)
    /\ hashHistory[0] # 0
    /\ hashHistory[1] = hashHistory[0]

\* C7: for s >= 0 live cells and t >= 1 targets, reconciliation leaves t
\* used cells and assignment gives every target one of them.
C7_MorphAssignsEveryTarget ==
    (rpc \in {"morphed", "crashed"} /\ Len(targetPoints) >= 1) =>
        /\ rpc = "morphed"
        /\ Len(usedCells) = Len(targetPoints)
        /\ Len(assignment) = Len(targetPoints)
        /\ \A i \in 1 .. Len(targetPoints) :
              assignment[i] \in 0 .. (Len(usedCells) - 1)

---------------------------------------------------------------------------
(* Display task: the marquee *)

\* updateMarqueeIfNeeded with a tick due: textX moved, lastUpdate set, and
\* drawMarqueeTextOnly (the band filled with customColor, the text drawn in
\* the dynamic font, the sprite pushed).
MarqueeTick ==
    /\ rpc = "work"
    /\ MarqueeDue
    /\ textX' = MarqueeAdvance(textX, SpriteTextWidth(customText, sprite.font))
    /\ lastUpdate' = now
    /\ sprite' = [color |-> customColor, text |-> customText,
                  font |-> DynamicFont(customText)]
    /\ frame' = [color |-> customColor, text |-> customText]
    /\ rpc' = "refresh"
    /\ UNCHANGED <<statusVars, saveVars, useMarquee, pageVars, buttonVars,
                   golVars, morphVars, rret, serverVars, statusMux>>

\* The battery refresh of updateDisplay, when 60 s have passed: the call of
\* displayStatus().
BatteryRefresh ==
    /\ rpc \in {"work", "refresh"}
    /\ ~MarqueeDue
    /\ rpc' = "disp"
    /\ rret' = "tick"
    /\ UNCHANGED <<statusVars, saveVars, marqueeVars, drawVars, pageVars,
                   buttonVars, golVars, morphVars, serverVars, statusMux>>

\* A text SetCustomText accepts (16 characters) that is wider than the
\* display in the 18 pt font.
WideText == Rep("W", 16)

\* The store of a device whose status was last set to the wide text.
WideTextStore ==
    [FirstBootStore EXCEPT !.isBusy = FALSE, !.customText = WideText,
                           !.customColor = TFT_BLUE]

\* The readings of millis() an iteration can take: 40 or 80 ms after the
\* last, for as long as MaxMarqueeTicks ticks can take (the battery refresh
\* is not due before millis() reaches 60000).
MarqueeInstants ==
    {now + 40, now + 80} \cap
        (BootTime .. (BootTime + (updateInterval + 40) * MaxMarqueeTicks))

InitMarquee ==
    /\ Boot(WideTextStore)
    /\ now = BootTime
    /\ targetPoints = <<>>

MarqueeNext ==
    \/ \E t \in MarqueeInstants : PollButtons(t, FALSE, FALSE)
    \/ MarqueeTick

\* The display task is a FreeRTOS task pinned to its own core that loops for
\* ever: it always takes its next step.
SpecMarquee == InitMarquee /\ [][MarqueeNext]_vars /\ WF_vars(MarqueeNext)

\* C8: for text wider than the display the offset stays within
\* -textWidth .. screenWidth, and starting at screenWidth it is, after
\* finitely many ticks, exactly screenWidth again.
C8_MarqueeWraps ==
    /\ [](NeedsMarquee(customText) =>
            (-TextWidth(customText) <= textX /\ textX <= screenWidth))
    /\ <>(lastUpdate > 0 /\ textX = screenWidth)

\* C8 witness: at least one tick has been made and the offset is back at
\* the right edge.
C8_Witness ==
    /\ NeedsMarquee(customText)
    /\ lastUpdate > 0
    /\ textX = screenWidth
    /\ frame.text = customText

---------------------------------------------------------------------------
(* Display task: the 1 s save check *)

\* The save check of updateDisplay finding needSaveStatus set, and
\* reallySaveStatus up to its last put.
TickSave ==
    /\ rpc \in {"work", "refresh", "tick"}
    /\ ~MarqueeDue
    /\ needSaveStatus
    /\ prefs' = StoreWithStatus
    /\ rpc' = "save_flag"
    /\ UNCHANGED <<statusVars, needSaveStatus, marqueeVars, drawVars, pageVars,
                   buttonVars, golVars, morphVars, rret, serverVars, statusMux>>

\* reallySaveStatus: needSaveStatus = false
ClearSaveFlag ==
    /\ rpc = "save_flag"
    /\ needSaveStatus' = FALSE
    /\ rpc' = "loop"
    /\ UNCHANGED <<statusVars, prefs, marqueeVars, drawVars, pageVars,
                   buttonVars, golVars, morphVars, rret, serverVars, statusMux>>

---------------------------------------------------------------------------
(* Requests *)

SetStatusRequest(status) ==
    [NoRequest EXCEPT !.cmd = "setStatus", !.status = status]

\* /setStatus with status=CUSTOM, customText and customColor
SetCustomRequest(text, color) ==
    [NoRequest EXCEPT !.cmd = "setStatus", !.status = CUSTOM_PREFIX,
                      !.text = text, !.color = color]

\* /setCustomStatus<slot + 1> with text and color
UpdateSlotRequest(slot, text, color) ==
    [NoRequest EXCEPT !.cmd = "setCustomStatus", !.slot = slot,
                      !.text = text, !.color = color]

RootRequest == [NoRequest EXCEPT !.cmd = "root"]

OkText == <<"O", "K">>
\* One character more than the handlers accept.
OversizeText == Rep("X", 21)
YellowArg == <<"#", "F", "F", "F", "F", "0", "0">>
CyanArg == <<"#", "0", "0", "f", "f", "f", "f">>

---------------------------------------------------------------------------
(* Status changes from both tasks, with the display and the page reading *)

StatusRequests ==
    {SetStatusRequest(STATUS_BUSY), SetStatusRequest(STATUS_TALK),
     SetCustomRequest(OkText, YellowArg),
     SetStatusRequest(DefaultSlotText(0)), RootRequest}

\* One press of the main button: down at the first reading, up 31 ms later.
StatusInstants == {BootTime + 10, BootTime + 41}

InitStatus ==
    /\ Boot(FirstBootStore)
    /\ now = BootTime
    /\ targetPoints = <<>>

StatusNext ==
    \/ \E r \in StatusRequests : Accept(r, MaxStatusRequests)
    \/ SetStatusEnter
    \/ SetStatusText
    \/ SetStatusColor
    \/ SelectSlotText
    \/ SelectSlotColor
    \/ SetStatusPost
    \/ SetStatusSave
    \/ ServerSetCustomText
    \/ ServerSetCustomColor
    \/ ServerSetCustomPost
    \/ ServerSetCustomFlag
    \/ ServerDisplayFill
    \/ ServerDisplayText
    \/ RootColor
    \/ RootText
    \/ \E t \in StatusInstants, main \in BOOLEAN : PollButtons(t, main, FALSE)
    \/ ShortPressSteps
    \/ BatteryRefresh
    \/ TickSave
    \/ ClearSaveFlag

SpecStatus == InitStatus /\ [][StatusNext]_vars

---------------------------------------------------------------------------
(* Claims about status reads and persistence *)

\* The text/colour pairs that are a status of this device: Busy, Available,
\* the three slots as saved, and the custom status the requests set.
StatusPairs ==
    {[color |-> TFT_RED, text |-> BUSY_TEXT],
     [color |-> TFT_GREEN, text |-> TALK_TEXT],
     [color |-> ParseColor(YellowArg), text |-> OkText]}
    \cup {[color |-> TFT_BLUE, text |-> DefaultSlotText(i)] : i \in 0 .. 2}

\* C1: no frame pushed to the panel and no page sent shows a text/colour
\* pair that mixes two statuses.
C1_ReadsNeverMixStatuses ==
    /\ frame \in StatusPairs
    /\ page.text # <<>> => page \in StatusPairs

\* The persisted status fields.
StoredStatus ==
    <<prefs.isBusy, prefs.customText, prefs.customColor, prefs.showBattery,
      prefs.showCornerInfo, prefs.custom>>

\* C2: the persisted status fields are written by the 1 s save check and by
\* nothing else, and that write stores the current values.
C2_WritesOnlyAtTick ==
    /\ [][StoredStatus' # StoredStatus =>
            (rpc \in {"work", "refresh", "tick"} /\ rpc' = "save_flag")]_vars
    /\ [][(rpc # "save_flag" /\ rpc' = "save_flag") =>
            StoredStatus' = <<isBusy, customText, customColor, showBattery,
                              showCornerInfo, customStatuses>>]_vars

---------------------------------------------------------------------------
(* The commands alone, each followed by any other *)

CmdRequests ==
    {SetStatusRequest(STATUS_BUSY), SetStatusRequest(STATUS_TALK),
     SetCustomRequest(OkText, YellowArg),
     SetCustomRequest(OversizeText, CyanArg),
     SetStatusRequest(DefaultSlotText(1)),
     UpdateSlotRequest(0, OkText, YellowArg),
     UpdateSlotRequest(2, OversizeText, CyanArg),
     [NoRequest EXCEPT !.cmd = "setCornerInfo", !.hasArg = TRUE, !.arg = <<"2">>],
     [NoRequest EXCEPT !.cmd = "setShowBattery"],
     ThreeBodyRequest,
     StopThreeBodyRequest}

InitCmd ==
    /\ Boot(FirstBootStore)
    /\ now = BootTime
    /\ targetPoints = <<>>

CmdNext ==
    \/ \E r \in CmdRequests : Accept(r, MaxCmdRequests)
    \/ SetStatusEnter
    \/ SetStatusText
    \/ SetStatusColor
    \/ SelectSlotText
    \/ SelectSlotColor
    \/ SetStatusPost
    \/ SetStatusSave
    \/ ServerSetCustomText
    \/ ServerSetCustomColor
    \/ ServerSetCustomPost
    \/ ServerSetCustomFlag
    \/ UpdateSlotText
    \/ UpdateSlotColor
    \/ UpdateSlotSave
    \/ SetCornerInfo
    \/ SetShowBattery
    \/ SettingSave
    \/ ServerDisplayFill
    \/ ServerDisplayText
    \/ ThreeBodyFlag
    \/ ThreeBodyInit
    \/ StopThreeBody

SpecCmd == InitCmd /\ [][CmdNext]_vars

\* A command has just been executed a second time in succession with the
\* same arguments.
RepeatedCommandDone == cpc = "idle" /\ served >= 2 /\ req = prevReq

\* C9 as stated: after a command is repeated with identical arguments the
\* shared state, grid included, is what it was after the first execution.
C9_EveryCommandIdempotent == RepeatedCommandDone => Shared = accepted

\* C9 amended: every command but StartAnimation is idempotent on the whole
\* shared state; StartAnimation is idempotent on everything but the contents
\* of the grid, which it draws afresh.
C9_IdempotentExceptGrid ==
    RepeatedCommandDone =>
        /\ \A k \in 1 .. 7 : Shared[k] = accepted[k]
        /\ req.cmd # "threebody" => Shared[8] = accepted[8]
        /\ req.cmd = "threebody" =>
              /\ DOMAIN Shared[8] = DOMAIN accepted[8]
              /\ golFrame = 0

\* C9 witness: /threebody has been repeated and the second grid differs from
\* the first.
C9_Witness ==
    /\ RepeatedCommandDone
    /\ req.cmd = "threebody"
    /\ gameOfLifeRunning
    /\ golGrid # accepted[8]

\* C10: a SetCustomText or UpdateCustomSlot whose text is longer than the
\* handlers accept leaves stored the leading characters that fit the buffer.
C10_OversizeTextTruncated ==
    (cpc = "idle" /\ Len(req.text) > 20) =>
        /\ (req.cmd = "setStatus" /\ req.status = CUSTOM_PREFIX) =>
              customText = SubSeq(req.text, 1, Min(Len(req.text), TextBufferSize - 1))
        /\ req.cmd = "setCustomStatus" =>
              customStatuses[req.slot].text =
                  SubSeq(req.text, 1, Min(Len(req.text), TextBufferSize - 1))

---------------------------------------------------------------------------
(* Colour arguments, well-formed and malformed *)

\* The colour argument missing, too short, too long, and of length 7 with
\* the '#' at the wrong end.
NoColorArg == <<>>
ShortColorArg == <<"#", "F", "F", "F">>
LongColorArg == <<"#", "F", "F", "F", "F", "0", "0", "0">>
MisplacedHashArg == <<"F", "F", "F", "F", "0", "0", "#">>

ColorArgs ==
    {NoColorArg, ShortColorArg, LongColorArg, MisplacedHashArg, YellowArg}

ColorRequests ==
    {SetCustomRequest(OkText, c) : c \in ColorArgs}
    \cup {UpdateSlotRequest(1, OkText, c) : c \in ColorArgs}

InitColor ==
    /\ Boot(FirstBootStore)
    /\ now = BootTime
    /\ targetPoints = <<>>

ColorNext ==
    \/ \E r \in ColorRequests : Accept(r, MaxCmdRequests)
    \/ SetStatusEnter
    \/ ServerSetCustomText
    \/ ServerSetCustomColor
    \/ ServerSetCustomPost
    \/ ServerSetCustomFlag
    \/ UpdateSlotText
    \/ UpdateSlotColor
    \/ UpdateSlotSave
    \/ ServerDisplayFill
    \/ ServerDisplayText

SpecColor == InitColor /\ [][ColorNext]_vars

\* C11: when SetCustomText or UpdateCustomSlot is given a colour whose length
\* is not 7 or whose first character is not '#', the status colour and every
\* slot's colour are after the command what they were before it.
C11_MalformedColorIgnored ==
    (/\ cpc = "idle"
     /\ served >= 1
     /\ (Len(req.color) # 7 \/ req.color[1] # "#")) =>
        /\ customColor = accepted[3]
        /\ \A i \in 0 .. 2 : customStatuses[i].color = accepted[4][i].color

\* C11 witness: a status colour set by an earlier command has survived a
\* SetCustomText whose colour had the '#' at the wrong end, its text applied.
C11_Witness ==
    /\ cpc = "idle"
    /\ req = SetCustomRequest(OkText, MisplacedHashArg)
    /\ prevReq = SetCustomRequest(OkText, YellowArg)
    /\ customColor = ParseColor(YellowArg)
    /\ customText = OkText

---------------------------------------------------------------------------
(* Both buttons, the animation and the commands that start and stop it *)

\* esp_deep_sleep_start() has not been called: deep sleep powers down both
\* cores, so neither task takes a step after it.
Awake == rpc # "asleep"

\* Stores a device can boot from: first boot, and the rotation toggled once
\* and saved.
RotationStores ==
    {FirstBootStore, [FirstBootStore EXCEPT !.screenRotation = 1]}

\* Readings of millis() for a press that begins 1 ms after the tasks start:
\* releases after 31 and 3000 ms, and a rotation press 1 ms before the
\* release of the long press.
AnimInstants == {BootTime + o : o \in {1, 32, 3000, 3001}}

\* A device that has served one /threebody since it booted (the flag set, a
\* grid drawn, no frame of the animation shown yet) and has just dispatched
\* a /stopthreebody, which the web-server task serves at any moment.
InitAnim ==
    /\ \E P \in RotationStores : BootStatus(P)
    /\ now = BootTime
    /\ targetPoints = <<>>
    /\ gameOfLifeRunning = TRUE
    /\ golCols = GolScreenWidth \div golCellSize
    /\ golRows = GolScreenHeight \div golCellSize
    /\ golFrame = 0
    /\ golGrid = [y \in Rows |-> [x \in Cols |-> 1]]
    /\ golNext = ZeroGrid(GolScreenHeight \div golCellSize,
                          GolScreenWidth \div golCellSize)
    /\ hashHistory = ClearedHistory
    /\ hashIdx = 0
    /\ alphaGrid = ZeroAlpha
    /\ cpc = "stopthreebody"
    /\ cret = "idle"
    /\ req = StopThreeBodyRequest
    /\ prevReq = ThreeBodyRequest
    /\ served = 2
    /\ accepted = Shared

AnimNext ==
    \/ \E t \in AnimInstants, main \in BOOLEAN, angle \in BOOLEAN :
          PollButtons(t, main, angle)
    \/ RotationSave
    \/ MainButton
    \/ ShortPressSteps
    \/ GolStep
    \/ AnimateToBusyBee
    \/ GolReset
    \/ Awake /\ StopThreeBody

SpecAnim == InitAnim /\ [][AnimNext]_vars

---------------------------------------------------------------------------
(* Claims about the buttons while the animation may run *)

\* A step in which the main-button half of handleButtonPress runs: a call
\* that the rotation half did not leave for displayStatus(), or the rest of
\* the call after a rotation.
MainHalfRuns ==
    \/ /\ rpc \in LoopPoints
       /\ now' > now
       /\ ~(rpc' = "disp" /\ lastPress' = lastPress)
    \/ rpc = "main" /\ rpc' # "main"

\* The main-button half sees the button released after a press.
ReleaseRead == MainHalfRuns /\ buttonWasPressed /\ ~buttonPressed'

\* What a sleeping device must leave alone: status, cycle position,
\* rotation, animation, store and panel.
SessionState ==
    <<statusVars, statusIndex, rotation, lastRotation, golVars, saveVars, frame>>

\* C12: a release after a press of at least 3000 ms puts the device to
\* sleep, animation running or not, debounce window elapsed or not, and
\* nothing of the session changes once it sleeps.
C12_LongPressSleeps ==
    /\ [][(ReleaseRead /\ now' - buttonPressTime >= 3000) =>
            (rpc' = "asleep" /\ UNCHANGED SessionState)]_vars
    /\ [][rpc = "asleep" => (rpc' = "asleep" /\ UNCHANGED SessionState)]_vars

\* C12 witness: the device sleeps after a press of 3000 ms made while the
\* animation was running.
C12_Witness ==
    /\ rpc = "asleep"
    /\ gameOfLifeRunning
    /\ now - buttonPressTime = 3000

\* C13: a short press accepted while the animation runs stops the animation
\* and calls displayStatus(), which pushes the current status; mode, text,
\* colour, slots and cycle position are left as they were.
C13_ShortPressStopsAnimation ==
    /\ [][(/\ ReleaseRead
           /\ gameOfLifeRunning
           /\ now' - buttonPressTime > 30
           /\ now' - buttonPressTime < 3000
           /\ now' - lastPress > 300) =>
            /\ ~gameOfLifeRunning'
            /\ rpc' = "disp"
            /\ statusIndex' = statusIndex
            /\ UNCHANGED statusVars]_vars
    /\ [][(rpc = "disp_text" /\ rret = "step" /\ rpc' = "step") =>
            /\ frame' = [color |-> customColor, text |-> customText]
            /\ statusIndex' = statusIndex
            /\ UNCHANGED statusVars]_vars

\* C13 witness: a press of 31 ms has stopped the animation and the status is
\* back on the panel.
C13_Witness ==
    /\ rpc = "step"
    /\ ~gameOfLifeRunning
    /\ lastPress = now
    /\ now = BootTime + 32
    /\ buttonPressTime = 0
    /\ frame = [color |-> customColor, text |-> customText]
    /\ statusIndex = 0

\* C14: an accepted rotation press leaves the panel at the other of the two
\* rotations and the store holding it, from either persisted rotation, and
\* an accepted press toggles while the animation runs as well.
C14_RotationPressToggles ==
    /\ rotation \in {1, 3}
    /\ rpc = "rot_save" => rotation # prefs.screenRotation
    /\ rpc = "main" => prefs.screenRotation = rotation
    /\ ~(rpc \in {"disp", "disp_text"} /\ rret = "step" /\ lastPress # now)

\* C19: the animation goes from running to stopped only in a step of the
\* /stopthreebody handler or in an accepted release of the main button.
C19_StoppedOnlyByStopOrMainButton ==
    [][(gameOfLifeRunning /\ ~gameOfLifeRunning') =>
          \/ (cpc = "stopthreebody" /\ cpc' = "idle")
          \/ (ReleaseRead /\ lastPress' = now')]_vars

---------------------------------------------------------------------------
(* Claims about what the two tasks touch *)

\* C15: no step of a command handler composes the sprite or pushes a frame;
\* the sprite's fill and text and the frame on the panel change only in
\* steps of the display task.
C15_HandlersNeverDraw ==
    [][cpc' # cpc =>
          /\ frame' = frame
          /\ sprite'.color = sprite.color
          /\ sprite'.text = sprite.text]_vars

\* C16: no step of a command handler writes the simulation grids and their
\* dimensions, the marquee offset and flag, or the button timers.
C16_HandlersLeaveRenderState ==
    [][cpc' # cpc =>
          UNCHANGED <<golGrid, golNext, golCols, golRows, golFrame, textX,
                      useMarquee, lastPress, buttonPressTime,
                      buttonWasPressed>>]_vars

\* C20: a release exactly 30 ms after the press, with no animation running
\* and the debounce window elapsed, starts one mode cycle.
C20_ThirtyMsIsShortPress ==
    [][(ReleaseClassified /\ now' - buttonPressTime = 30) =>
          /\ rpc' = "cyc_lock"
          /\ statusIndex' = NextStatusIndex(statusIndex)]_vars

---------------------------------------------------------------------------
(* Commands with arbitrary arguments, a button press, any store at boot *)

\* One character more than the text buffers hold.
LongText == Rep("X", TextBufferSize + 1)

\* Text arguments: none, the longest the handlers accept, one more, and one
\* longer than the buffers.
ArgTexts == {<<>>, Rep("X", 20), OversizeText, LongText}

\* cornerInfo arguments: a mode, a number that is no mode, no number at all.
CornerInfoArgs == {<<"0">>, <<"7">>, <<"1", "0">>, <<"x">>}

\* The namespace as this firmware first finds it, and as something else
\* left it: status and slot texts longer than the buffers they are loaded
\* into.
TextStores ==
    {FirstBootStore,
     [FirstBootStore EXCEPT
        !.customText = LongText,
        !.custom = [i \in 0 .. 2 |-> [text |-> LongText, color |-> TFT_BLUE]]]}

ArgRequests ==
    {SetCustomRequest(t, YellowArg) : t \in ArgTexts}
    \cup {UpdateSlotRequest(0, t, YellowArg) : t \in ArgTexts}
    \cup {SetStatusRequest(DefaultSlotText(0))}
    \cup {[NoRequest EXCEPT !.cmd = "setCornerInfo", !.hasArg = TRUE, !.arg = a] :
             a \in CornerInfoArgs}
    \cup {[NoRequest EXCEPT !.cmd = "setCornerInfo"]}

InitArgs ==
    /\ \E P \in TextStores : Boot(P)
    /\ now = BootTime
    /\ targetPoints = <<>>

ArgsNext ==
    \/ \E r \in ArgRequests : Accept(r, MaxCmdRequests)
    \/ SetStatusEnter
    \/ SelectSlotText
    \/ SelectSlotColor
    \/ SetStatusPost
    \/ SetStatusSave
    \/ ServerSetCustomText
    \/ ServerSetCustomColor
    \/ ServerSetCustomPost
    \/ ServerSetCustomFlag
    \/ UpdateSlotText
    \/ UpdateSlotColor
    \/ UpdateSlotSave
    \/ SetCornerInfo
    \/ SettingSave
    \/ ServerDisplayFill
    \/ ServerDisplayText
    \/ \E t \in StatusInstants, main \in BOOLEAN : PollButtons(t, main, FALSE)
    \/ ShortPressSteps

SpecArgs == InitArgs /\ [][ArgsNext]_vars

\* C17: the status text and every slot text are at most 31 characters long
\* in every state, whatever the store held at boot and whatever texts the
\* commands were given.
C17_TextsFitBuffers ==
    /\ Len(customText) <= 31
    /\ \A i \in 0 .. 2 : Len(customStatuses[i].text) <= 31

\* C17 witness: booted from texts of 33 characters, the device has refused a
\* SetCustomText of 33 characters and then selected slot 1, whose text is
\* the 31 characters the boot kept.
C17_Witness ==
    /\ cpc = "idle"
    /\ Len(prevReq.text) = 33
    /\ req = SetStatusRequest(DefaultSlotText(0))
    /\ Len(customStatuses[0].text) = 31
    /\ customText = customStatuses[0].text

\* C18: the corner-info mode is 0, 1 or 2 in every state, whatever argument
\* SetCornerInfoMode was given.
C18_CornerInfoIsAMode == showCornerInfo \in {0, 1, 2}

---------------------------------------------------------------------------
(* The two buttons within one debounce window *)

\* Polls that all fall within 300 ms of one another: with the single
\* lastPress of handleButtonPress at most one press is accepted among them.
TimerInstants == {BootTime + o : o \in {1, 2, 33, 100}}

InitTimers ==
    /\ Boot(FirstBootStore)
    /\ now = BootTime
    /\ targetPoints = <<>>

TimersNext ==
    \/ \E t \in TimerInstants, main \in BOOLEAN, angle \in BOOLEAN :
          PollButtons(t, main, angle)
    \/ RotationSave
    \/ MainButton
    \/ ShortPressSteps

SpecTimers == InitTimers /\ [][TimersNext]_vars

\* No short press has cycled the status since boot (a cycle leaves
\* statusIndex at 0 only after passing through every mode).
NoShortPressAccepted == statusIndex = 0

\* No rotation press has been accepted since boot.
NoRotationAccepted == rotation = 3 /\ lastRotation = 3 /\ rret # "rot_save"

\* handleButtonPress is entered from the loop.
ButtonsPolled == rpc \in LoopPoints /\ now' > now

\* C21: each button has its own 300 ms debounce timer: while no short press
\* has been accepted, a release of the primary button after 31..2999 ms
\* cycles the status whatever the rotation button did before, and while no
\* rotation has been accepted, a rotation press toggles the rotation
\* whatever the primary button did before.
C21_IndependentDebounceTimers ==
    /\ [][(ReleaseRead /\ ~gameOfLifeRunning /\ NoShortPressAccepted
             /\ IsShortPress(now' - buttonPressTime)
             /\ ~IsLongPress(now' - buttonPressTime))
          => rpc' = "cyc_lock"]_vars
    /\ [][(ButtonsPolled /\ anglePressed' /\ ~gameOfLifeRunning
             /\ NoRotationAccepted)
          => (rotation' # rotation /\ rpc' = "disp" /\ rret' = "rot_save")]_vars

---------------------------------------------------------------------------
(* The rotation button held down *)

MaxHoldPolls == 8
HoldPollPeriod == 101

HoldInstants == {BootTime + HoldPollPeriod * k : k \in 1 .. MaxHoldPolls}

InitHold ==
    /\ Boot(FirstBootStore)
    /\ now = BootTime
    /\ targetPoints = <<>>

\* The main button is left alone; the rotation button, once read pressed,
\* is read pressed at every later poll.
HoldNext ==
    \/ \E t \in HoldInstants, angle \in BOOLEAN :
          /\ anglePressed => angle
          /\ PollButtons(t, FALSE, angle)
    \/ RenderDisplayFill
    \/ RenderDisplayText
    \/ RotationSave
    \/ MainButton

SpecHold == InitHold /\ [][HoldNext]_vars

\* C22: the rotation button is edge-triggered: a poll that reads it pressed
\* when the poll before read it pressed too (the same continuous press)
\* does not toggle the rotation again.
C22_HeldRotationTogglesOnce ==
    [][(ButtonsPolled /\ anglePressed /\ anglePressed')
          => (rotation' = rotation /\ rpc' # "disp")]_vars

---------------------------------------------------------------------------
(* The alpha fade of the animation *)

\* The alpha values the update reaches from 0: the multiples of 32 below 256.
AlphaLevels == {32 * k : k \in 0 .. 7}

\* An animation some ticks old: any grid, any alpha reached so far.
InitFade ==
    /\ BootStatus(FirstBootStore)
    /\ now = BootTime
    /\ targetPoints = TargetList(1)
    /\ gameOfLifeRunning = TRUE
    /\ golCols = GolScreenWidth \div golCellSize
    /\ golRows = GolScreenHeight \div golCellSize
    /\ golFrame = 0
    /\ golGrid \in RandomGrids
    /\ golNext = ZeroGrid(GolScreenHeight \div golCellSize,
                          GolScreenWidth \div golCellSize)
    /\ hashHistory = ClearedHistory
    /\ hashIdx = 0
    /\ alphaGrid \in [AlphaCells -> AlphaLevels]
    /\ cpc = "idle"
    /\ cret = "idle"
    /\ req = ThreeBodyRequest
    /\ prevReq = NoRequest
    /\ served = 1
    /\ accepted = <<>>

FadeNext ==
    \/ \E t \in GolInstants : PollButtons(t, FALSE, FALSE)
    \/ GolStep
    \/ AnimateToBusyBee
    \/ GolReset

SpecFade == InitFade /\ [][FadeNext]_vars

\* stepGameOfLife runs its alpha update and generation step.
SimulationTick == rpc = "step" /\ rpc' # "step"

\* C23: at every tick the alpha of a live cell rises by 32 and stops at 255,
\* never decreasing; the alpha of a dead cell falls by 32 and stops at 0,
\* never increasing; the value stays within 0..255 and does not wrap.
C23_AlphaFadeSaturates ==
    [][SimulationTick =>
         \A c \in AlphaCells :
            LET alive == golGrid[c[1]][c[2]] # 0
            IN  /\ alphaGrid'[c] \in 0 .. 255
                /\ alphaGrid'[c] = AlphaStepClamped(alphaGrid[c], alive)
                /\ alive => alphaGrid'[c] >= alphaGrid[c]
                /\ ~alive => alphaGrid'[c] <= alphaGrid[c]]_vars

---------------------------------------------------------------------------
(* The reset after extinction *)

\* C24: a step whose generation is all dead runs the morph, the morph
\* returns, and the step ends with a fresh grid of the same size, the
\* history cleared and the animation still running.
C24_ExtinctionResetCompletes ==
    /\ [][(SimulationTick /\ AllDead(golGrid')) => rpc' = "morph"]_vars
    /\ [][(rpc = "morph" /\ AllDead(golGrid) /\ rpc' # "morph")
          => rpc' = "morphed"]_vars
    /\ [][(rpc = "morphed" /\ rpc' # "morphed")
          => /\ rpc' = "loop"
             /\ gameOfLifeRunning'
             /\ golGrid' \in RandomGrids
             /\ hashHistory' = ClearedHistory
             /\ hashIdx' = 0]_vars

---------------------------------------------------------------------------
(* The greedy assignment of the morph *)

\* The used-cell indices (1-based) given to the targets before target i.
TakenBefore(i) == {assignment[j] + 1 : j \in 1 .. (i - 1)}

\* C25: after the morph's assignment every target, in scan order, has the
\* cell of least squared distance among those no earlier target took, the
\* lowest index among equally near ones, and no cell is given twice.
C25_GreedyNearestAssignment ==
    (rpc = "morphed" /\ Len(targetPoints) >= 1) =>
        /\ Len(assignment) = Len(targetPoints)
        /\ \A i \in 1 .. Len(targetPoints) :
              LET m == assignment[i] + 1
                  free == (1 .. Len(usedCells)) \ TakenBefore(i)
                  d(k) == (usedCells[k].x - targetPoints[i].x)
                             * (usedCells[k].x - targetPoints[i].x)
                          + (usedCells[k].y - targetPoints[i].y)
                             * (usedCells[k].y - targetPoints[i].y)
              IN  /\ m \in free
                  /\ \A k \in free : d(m) < d(k) \/ (d(m) = d(k) /\ m <= k)
        /\ \A i, j \in 1 .. Len(targetPoints) :
              i # j => assignment[i] # assignment[j]

\* C25 witness: two targets and two different cells, the second target
\* nearer to the cell the first one took than to the cell it gets.
C25_Witness ==
    /\ rpc = "morphed"
    /\ Len(targetPoints) = 2
    /\ usedCells[1] # usedCells[2]
    /\ assignment = <<1, 0>>
    /\ SqDist(usedCells[2], targetPoints[2]) < SqDist(usedCells[1], targetPoints[2])

---------------------------------------------------------------------------
(* Stopping the animation by command *)

\* The display task is in a pass of its loop that found the animation
\* running: before, in or after that pass's stepGameOfLife().
InStepIteration ==
    \/ rpc \in {"step", "morph", "morphed"}
    \/ rpc \in {"disp", "disp_text"} /\ rret = "step"

\* The /stopthreebody handler has returned.
StopServed == req = StopThreeBodyRequest /\ cpc = "idle"

\* C26: once the stop command has cleared the running flag, the display
\* task finishes at most the pass it is in (one simulation step) and starts
\* no further pass that steps the simulation.
C26_AtMostOneStepAfterStop ==
    /\ [][(StopServed /\ ~InStepIteration) => ~InStepIteration']_vars
    /\ [][(StopServed /\ rpc \in {"morph", "morphed"}) => rpc' # "step"]_vars
    /\ [](StopServed => ~gameOfLifeRunning)

\* C26 witness: the stop command was served while the display task, having
\* read both buttons released, was about to run its step.
C26_Witness ==
    /\ StopServed
    /\ ~gameOfLifeRunning
    /\ rpc = "step"
    /\ now > BootTime
    /\ ~anglePressed
    /\ ~buttonPressed
    /\ ~buttonWasPressed

---------------------------------------------------------------------------
(* /setStatus with a slot name that selects nothing *)

MaxSelectRequests == 2

\* What follows "CUSTOM" in the status argument.
SlotSuffixes ==
    {<<"0">>, <<"2">>, <<"4">>, <<"1", "2">>, <<"x">>, <<"1", "x">>}

SelectRequests ==
    {SetStatusRequest(CUSTOM_PREFIX \o x) : x \in SlotSuffixes}
        \cup {SetStatusRequest(STATUS_TALK)}

InitSelect ==
    /\ \E P \in SlotTextStores : Boot(P)
    /\ now = BootTime
    /\ targetPoints = <<>>

SelectNext ==
    \/ \E r \in SelectRequests : Accept(r, MaxSelectRequests)
    \/ SetStatusEnter
    \/ SetStatusText
    \/ SetStatusColor
    \/ SelectSlotText
    \/ SelectSlotColor
    \/ SetStatusPost
    \/ SetStatusSave
    \/ ServerDisplayFill
    \/ ServerDisplayText

SpecSelect == InitSelect /\ [][SelectNext]_vars

\* The request being served is /setStatus?status=CUSTOM<suffix>, the suffix
\* not empty.
SlotRequested ==
    /\ req.cmd = "setStatus"
    /\ Len(req.status) > Len(CUSTOM_PREFIX)
    /\ SubSeq(req.status, 1, Len(CUSTOM_PREFIX)) = CUSTOM_PREFIX

RequestedSuffix == SubSeq(req.status, Len(CUSTOM_PREFIX) + 1, Len(req.status))

\* The suffix is a decimal number.
SuffixIsNumeric == \A i \in 1 .. Len(RequestedSuffix) : IsDigit(RequestedSuffix[i])

\* The number the suffix starts with, 0 when it starts with no digit.
LeadingNumber == ToInt(RequestedSuffix)

\* The status text, colour and busy flag are as they were when the request
\* was accepted, and the handler is not copying a slot.
StatusAsAccepted ==
    /\ isBusy = accepted[1]
    /\ customText = accepted[2]
    /\ customColor = accepted[3]
    /\ cpc \notin {"slot_text", "slot_color"}

---------------------------------------------------------------------------
(* The button cycle after a command *)

\* The place in the cycle of the status now shown: 0 BUSY, 1 LET'S TALK,
\* 2..4 the custom slot with that text and colour, -1 a status that is not
\* one of the cycle's.
ActiveMode ==
    IF isBusy /\ customText = BUSY_TEXT /\ customColor = TFT_RED THEN 0
    ELSE IF ~isBusy /\ customText = TALK_TEXT /\ customColor = TFT_GREEN THEN 1
    ELSE IF \E i \in 0 .. 2 : /\ customStatuses[i].text # <<>>
                               /\ customText = customStatuses[i].text
                               /\ customColor = customStatuses[i].color
    THEN 2 + CHOOSE i \in 0 .. 2 : /\ customStatuses[i].text # <<>>
                                    /\ customText = customStatuses[i].text
                                    /\ customColor = customStatuses[i].color
    ELSE -1

\* handleButtonPress accepts a short press and starts the cycle.
ShortPressAccepted == rpc # "cyc_lock" /\ rpc' = "cyc_lock"

\* C28: an accepted short press selects the mode that follows the mode
\* active when it is read, whether the button or a command set that mode.
C28_CycleFollowsActiveMode ==
    [][(ShortPressAccepted /\ cpc = "idle" /\ ActiveMode \in 0 .. 4)
          => statusIndex' = NextStatusIndex(ActiveMode)]_vars

---------------------------------------------------------------------------
(* The slot-skipping loop *)

AllSlotsEmpty == \A i \in 0 .. 2 : customStatuses[i].text = <<>>

---------------------------------------------------------------------------
(* A slot updated while the button cycle applies it *)

MaxSlotRequests == 1

\* Two short presses of the main button: 31 ms, then 300 ms, the second
\* released 301 ms after the first.
SlotInstants == {BootTime + o : o \in {1, 32, 33, 333}}

InitSlot ==
    /\ Boot(FirstBootStore)
    /\ now = BootTime
    /\ targetPoints = <<>>

SlotNext ==
    \/ Accept(UpdateSlotRequest(0, OkText, YellowArg), MaxSlotRequests)
    \/ UpdateSlotText
    \/ UpdateSlotColor
    \/ UpdateSlotSave
    \/ \E t \in SlotInstants, main \in BOOLEAN : PollButtons(t, main, FALSE)
    \/ ShortPressSteps

SpecSlot == InitSlot /\ [][SlotNext]_vars

\* C30: the text and colour a short press has applied from a custom slot
\* are the slot's pair from before a concurrent update of that slot or the
\* pair the update writes, never the text of one with the colour of the
\* other.
C30_SlotUpdateAtomicForCycle ==
    (rpc = "cyc_save" /\ statusIndex >= 2) =>
        LET i == statusIndex - 2
            applied == [text |-> customText, color |-> customColor]
        IN  IF req.cmd = "setCustomStatus" /\ req.slot = i
            THEN applied \in {accepted[4][i],
                              [text |-> Strncpy(req.text),
                               color |-> ParseColor(req.color)]}
            ELSE applied = customStatuses[i]

---------------------------------------------------------------------------
(* /threebody while the display task loops *)

\* The device after boot, a first /threebody dispatched to its handler.
InitStart ==
    /\ BootStatus(FirstBootStore)
    /\ AnimationIdle
    /\ now = BootTime
    /\ targetPoints = TargetList(1)
    /\ cpc = "threebody"
    /\ cret = "idle"
    /\ req = ThreeBodyRequest
    /\ prevReq = NoRequest
    /\ served = 1
    /\ accepted = <<>>

StartNext ==
    \/ ThreeBodyFlag
    \/ ThreeBodyInit
    \/ \E t \in GolInstants : PollButtons(t, FALSE, FALSE)
    \/ GolStep
    \/ AnimateToBusyBee
    \/ GolReset

SpecStart == InitStart /\ [][StartNext]_vars

\* initGameOfLife() has run and is not running now: the dimensions are set
\* and both grids have them.
GridInitialised ==
    /\ cpc # "tb_init"
    /\ golRows = GolScreenHeight \div golCellSize
    /\ golCols = GolScreenWidth \div golCellSize
    /\ golGrid \in AllGrids(golRows, golCols)
    /\ golNext \in AllGrids(golRows, golCols)

\* C31: the display task is about to run, or is inside, stepGameOfLife()
\* only with the grid of the session fully initialised and no
\* initGameOfLife() under way.
C31_StepOnInitialisedGrid ==
    rpc \in {"step", "morph", "morphed"} => GridInitialised

---------------------------------------------------------------------------
(* A preset command while a short press cycles the status *)

MaxPresetRequests == 1

PresetRequests == {SetStatusRequest(STATUS_BUSY), SetStatusRequest(STATUS_TALK)}

InitPreset ==
    /\ Boot(FirstBootStore)
    /\ now = BootTime
    /\ targetPoints = <<>>

PresetNext ==
    \/ \E r \in PresetRequests : Accept(r, MaxPresetRequests)
    \/ SetStatusEnter
    \/ SetStatusText
    \/ SetStatusColor
    \/ SetStatusPost
    \/ SetStatusSave
    \/ ServerDisplayFill
    \/ ServerDisplayText
    \/ \E t \in StatusInstants, main \in BOOLEAN : PollButtons(t, main, FALSE)
    \/ ShortPressSteps

SpecPreset == InitPreset /\ [][PresetNext]_vars

\* The pairs a preset command or a short press writes.
WrittenPairs ==
    {<<BUSY_TEXT, TFT_RED>>, <<TALK_TEXT, TFT_GREEN>>}
        \cup {<<customStatuses[i].text, customStatuses[i].color>> : i \in 0 .. 2}

\* No handler and no short press is under way.
BothCompleted == cpc = "idle" /\ rpc \in LoopPoints

\* C32: once a preset command and a short press have both completed, the
\* status text and colour are a pair one of them wrote, not the text of one
\* with the colour of the other.
C32_NoMixedPresetPair ==
    BothCompleted => <<customText, customColor>> \in WrittenPairs

---------------------------------------------------------------------------
(* /setStatus?status=CUSTOM while the display task flushes *)

MaxFlushRequests == 2

FlushRequests ==
    {SetCustomRequest(OkText, YellowArg),
     SetCustomRequest(DefaultSlotText(1), CyanArg)}

InitFlush ==
    /\ Boot(FirstBootStore)
    /\ now = BootTime
    /\ targetPoints = <<>>

FlushNext ==
    \/ \E r \in FlushRequests : Accept(r, MaxFlushRequests)
    \/ SetStatusEnter
    \/ ServerSetCustomText
    \/ ServerSetCustomColor
    \/ ServerSetCustomPost
    \/ ServerSetCustomFlag
    \/ ServerDisplayFill
    \/ ServerDisplayText
    \/ \E t \in StatusInstants : PollButtons(t, FALSE, FALSE)
    \/ TickSave
    \/ ClearSaveFlag

SpecFlush == InitFlush /\ [][FlushNext]_vars

\* The store holds the status text and colour now current.
StatusStored ==
    /\ prefs.customText = customText
    /\ prefs.customColor = customColor

\* C33: a flush does not discard a change made while it runs: when no
\* handler and no flush is under way, the store holds the current status
\* text and colour or the dirty flag is still set.
C33_FlushKeepsPendingChange ==
    (cpc = "idle" /\ rpc # "save_flag") => (StatusStored \/ needSaveStatus)

---------------------------------------------------------------------------
(* The dirty flag while the animation runs *)

\* handleButtonPress with both buttons released and no press remembered:
\* the reading of millis() is compared with nothing and stored nowhere.
QuietPoll ==
    /\ rpc \in LoopPoints
    /\ ~(rpc = "work" /\ MarqueeDue)
    /\ ~buttonWasPressed
    /\ buttonPressed' = FALSE
    /\ anglePressed' = FALSE
    /\ rpc' = LoopBranch
    /\ UNCHANGED <<statusVars, saveVars, marqueeVars, drawVars, pageVars,
                   now, lastRotation, lastPress, buttonWasPressed, statusIndex,
                   buttonPressTime, rotation, golVars, morphVars, rret,
                   serverVars, statusMux>>

\* The one reading at which the rotation button may be found pressed.
LiveInstants == {BootTime + 1}

\* The animation running and /setStatus?status=CUSTOM, with no text and no
\* colour given, served up to the last statement of serverSetCustom.
InitLive ==
    /\ BootStatus(FirstBootStore)
    /\ now = BootTime
    /\ targetPoints = TargetList(1)
    /\ gameOfLifeRunning = TRUE
    /\ golCols = GolScreenWidth \div golCellSize
    /\ golRows = GolScreenHeight \div golCellSize
    /\ golFrame = 0
    /\ golGrid \in RandomGrids
    /\ golNext = ZeroGrid(GolScreenHeight \div golCellSize,
                          GolScreenWidth \div golCellSize)
    /\ hashHistory = ClearedHistory
    /\ hashIdx = 0
    /\ alphaGrid = ZeroAlpha
    /\ cpc = "sc_flag"
    /\ cret = "idle"
    /\ req = SetCustomRequest(<<>>, <<>>)
    /\ prevReq = ThreeBodyRequest
    /\ served = 2
    /\ accepted = <<>>

\* The steps of the display task, but for the flush.
LiveRender ==
    \/ QuietPoll
    \/ \E t \in LiveInstants : PollButtons(t, FALSE, TRUE)
    \/ RenderDisplayFill
    \/ RenderDisplayText
    \/ GolStep
    \/ AnimateToBusyBee
    \/ GolReset

LiveNext ==
    \/ LiveRender
    \/ ServerSetCustomFlag
    \/ TickSave
    \/ ClearSaveFlag

\* Both tasks loop for ever and always take their next step; the display
\* task, when not animating, comes to its save check every second.
SpecLive ==
    /\ InitLive
    /\ [][LiveNext]_vars
    /\ WF_vars(QuietPoll \/ RenderDisplayFill \/ RenderDisplayText \/ GolStep
                 \/ AnimateToBusyBee \/ GolReset)
    /\ WF_vars(ServerSetCustomFlag)
    /\ WF_vars(TickSave)
    /\ WF_vars(ClearSaveFlag)

\* C34: whenever the dirty flag is set, a flush clears it later on (or the
\* display task has trapped in the morph), the animation running or not.
C34_DirtyFlagEventuallyFlushed ==
    needSaveStatus ~> (~needSaveStatus \/ rpc = "crashed")

----------------------------------------------------------------------------
(* /setStatus?status=CUSTOM before a long press puts the chip to sleep *)

MaxSleepRequests == 1

\* The readings of millis(): the press seen one millisecond after boot, the
\* release seen longPressDuration later.
SleepInstants == {BootTime + 1, BootTime + 1 + longPressDuration}

InitSleep ==
    /\ Boot(FirstBootStore)
    /\ now = BootTime
    /\ targetPoints = <<>>

\* esp_deep_sleep_start() halts both cores: neither task runs again.
SleepNext ==
    \/ Awake /\ \E r \in FlushRequests : Accept(r, MaxSleepRequests)
    \/ Awake /\ SetStatusEnter
    \/ Awake /\ ServerSetCustomText
    \/ Awake /\ ServerSetCustomColor
    \/ Awake /\ ServerSetCustomPost
    \/ Awake /\ ServerSetCustomFlag
    \/ Awake /\ ServerDisplayFill
    \/ Awake /\ ServerDisplayText
    \/ \E t \in SleepInstants, main \in BOOLEAN : PollButtons(t, main, FALSE)
    \/ TickSave
    \/ ClearSaveFlag

SpecSleep == InitSleep /\ [][SleepNext]_vars

\* C35: when a long press has put the device to sleep and no handler was
\* cut short by it, the store the next boot loads from holds the status text
\* and colour that were current at sleep.
C35_SleepLeavesNothingUnflushed ==
    (rpc = "asleep" /\ cpc = "idle")
        => (prefs.customText = customText /\ prefs.customColor = customColor)

----------------------------------------------------------------------------
(* What the automatic reset takes for a stall *)

\* The animation running and a second /threebody dispatched.
InitRestart ==
    /\ BootStatus(FirstBootStore)
    /\ now = BootTime
    /\ targetPoints = <<>>
    /\ gameOfLifeRunning = TRUE
    /\ golCols = GolScreenWidth \div golCellSize
    /\ golRows = GolScreenHeight \div golCellSize
    /\ golFrame = 0
    /\ golGrid \in RandomGrids
    /\ golNext = ZeroGrid(GolScreenHeight \div golCellSize,
                          GolScreenWidth \div golCellSize)
    /\ hashHistory = ClearedHistory
    /\ hashIdx = 0
    /\ alphaGrid = ZeroAlpha
    /\ cpc = "threebody"
    /\ cret = "idle"
    /\ req = ThreeBodyRequest
    /\ prevReq = ThreeBodyRequest
    /\ served = 2
    /\ accepted = <<>>

SpecRestart == InitRestart /\ [][StartNext]_vars

\* The hashes of the generations since initGameOfLife() last ran: that of
\* the grid the step starts from, and those recorded for the generations
\* computed before it, golFrame of them and no more than the history holds.
HashesSinceInit ==
    {GridHash(golGrid)} \cup
    {hashHistory[(hashIdx - k) % HASH_HISTORY] :
        k \in 1 .. Min(golFrame, HASH_HISTORY)}

\* C36: the simulation goes to the morph and reset only when the generation
\* just computed is all dead or its hash is that of one of the up to 8
\* generations computed before it since the grid was last initialised; a
\* history slot not yet written, or written before the latest
\* initialisation, does not count.
C36_ResetOnlyOnRealStall ==
    [][(SimulationTick /\ rpc' = "morph")
         => (AllDead(golGrid') \/ GridHash(golGrid') \in HashesSinceInit)]_vars

----------------------------------------------------------------------------
(* isBusy and the status shown *)

\* The status is the BUSY preset: its text in red.
BusyPresetShown == customText = BUSY_TEXT /\ customColor = TFT_RED

\* C37: when no handler and no press is being served, isBusy is true exactly
\* when the current status is the BUSY preset; after a custom text has been
\* set it is false.
C37_IsBusyAgreesWithStatus ==
    (cpc = "idle" /\ rpc \in LoopPoints) => (isBusy <=> BusyPresetShown)

----------------------------------------------------------------------------
(* A slot emptied while the button cycle goes to it *)

MaxEmptyRequests == 1

InitEmpty ==
    /\ Boot(FirstBootStore)
    /\ now = BootTime
    /\ targetPoints = <<>>

\* /setCustomStatus1 with no text, and the two short presses of SlotInstants.
EmptyNext ==
    \/ Accept(UpdateSlotRequest(0, <<>>, YellowArg), MaxEmptyRequests)
    \/ UpdateSlotText
    \/ UpdateSlotColor
    \/ UpdateSlotSave
    \/ \E t \in SlotInstants, main \in BOOLEAN : PollButtons(t, main, FALSE)
    \/ ShortPressSteps

SpecEmpty == InitEmpty /\ [][EmptyNext]_vars

\* C38: the text a short press has copied from a custom slot into the
\* current status is not empty, also when /setCustomStatusN with an empty
\* text for that slot is served while the press is handled.
C38_CycleNeverAppliesEmptyText ==
    (rpc = "cyc_color" /\ statusIndex >= 2) => Len(customText) > 0

=============================================================================
